---- MODULE Spec2Model ----
(***************************************************************************)
(* A model of ningen (github.com/diamondburned/ningen/v3): the event       *)
(* fan-out kernel and its ready barrier (ningen.go), the Offline/Online    *)
(* handles, the lazy member-list engine (states/member), the read, mute    *)
(* and presence states, the conversation summaries with their files, and   *)
(* the queries over the cabinet.                                           *)
(***************************************************************************)
EXTENDS Integers, Sequences, FiniteSets, TLC

VARIABLES
    \* ---- event fan-out kernel (ningen.go) ----
    gw,            \* the gateway session: "closed" or "open"
    nEv,           \* number of gateway events handed to s.Handler so far
    cur,           \* the event the dispatcher is walking through the handlers
    pending,       \* goroutines spawned for AddHandler handlers, not yet run
    deliv,         \* id of the last event handed to state.Handler (the application)
    synth,         \* the synthetic event handed over with it
    initd,         \* number of values buffered in State.initd
    openPc,        \* where the Open call is: "idle", "drained", "waiting"
    openRes,       \* what the last Open returned: "none", "nil", "ctxErr", "openErr"
    ctxDone,       \* whether Open's context is cancelled
    nOpen,         \* number of Open calls so far
    raised,        \* history: successful sends into initd
    dropped,       \* history: Ready events whose offer took the default branch
    firstReady,    \* history: id of the first Ready handled since Open drained
    readyOffered,  \* history: a Ready reached the offer since Open drained
    \* ---- Offline/Online handles (ningen.go) ----
    hs,            \* the handles derived so far, each with its history
    \* ---- ComputeListID (states/member/member.go) ----
    owIn,          \* a channel's permission overwrites
    owPerm,        \* the same overwrites in another order
    idA,           \* ComputeListID(owIn), "none" before the call
    idB,           \* ComputeListID(owPerm)
    \* ---- member list (states/member/member.go, list.go) ----
    ml,            \* the guild's List: counts, groups, items' backing array and length
    evOpen,        \* onListUpdate is inside an event's op loop
    evI,           \* index i of the next op in ev.Ops
    crashed,       \* a handler or call panicked
    errs,          \* OnError calls made for the current event
    fwd,           \* the last op as onListUpdate left it in ev.Ops
    nOps,          \* ops handled so far
    before,        \* history: the items before the last op
    ref,           \* history: the reference vector
    inRange,       \* history: every op so far was in range
    minFetched,    \* State.minFetched: channel -> last requested chunk
    tasks,         \* the send goroutines RequestMemberList started, not yet run
    subChannels,   \* Guild.subChannels: channel -> windows
    lastSent,      \* the Channels of the last GuildSubscribe command
    nSent,         \* GuildSubscribe commands sent
    subErrs,       \* OnError calls for failed GuildSubscribe sends
    ret,           \* what the last RequestMemberList returned
    lastReq,       \* history: the last RequestMemberList call
    nReq,          \* RequestMemberList calls so far
    \* ---- member requests (states/member/member.go) ----
    store,         \* users the member store holds for the guild
    reqing,        \* Guild.reqing: users being requested
    calls,         \* RequestMember calls past the store check, waiting for guild.mut
    mtasks,        \* send goroutines RequestMember started, not yet run
    cmds,          \* the UserIDs of the request-guild-members commands sent
    memErrs,       \* OnError calls for failed request-guild-members sends
    chunked,       \* history: users a GuildMembersChunk has delivered
    nCalls,        \* RequestMember calls so far
    \* ---- read state (states/read/read.go) ----
    selfID,        \* State.selfID
    states,        \* State.states: channel -> last read message and mention count
    known,         \* channels the cabinet holds
    msgs,          \* messages the cabinet holds: channel, id -> author
    rtasks,        \* goroutines started to dispatch an UpdateEvent, not yet run
    updates,       \* the UpdateEvents handed to state.Call, in order
    nAcks,         \* ack RPCs started
    nRd,           \* read-state operations so far
    lastOp,        \* history: the last read-state operation and what it started
    lastMark,      \* history: the message last marked read, 0 once a mention came
    \* ---- mute state and MessageMentions (states/mute/mute.go, ningen.go) ----
    now,           \* time.Now()
    mguilds,       \* mute.State.guilds: the guild's UserGuildSetting, if stored
    mchannels,     \* mute.State.channels: the channel's override, if stored
    cab,           \* the cabinet: me, the guild's default level, the channel's type
    msgIn,         \* the message handed to MessageMentions
    verdict,       \* the flags MessageMentions returned
    asked,         \* the last mute.State.Guild call and its result
    mmaps,         \* mute.State's maps: "nil" before Ready, "made", or "fault"
    \* ---- presence store (nstore/presence.go) ----
    presences,     \* PresenceStore.presences: user -> presence
    userGuilds,    \* PresenceStore.userGuilds: user -> guild -> presence
    plist,         \* history: per user, the presences set and not removed, oldest first
    plast,         \* history: the last presence store call
    \* ---- conversation summaries (unnamed/part_012) ----
    summaries,     \* State.summaries of the channel
    sfiles,        \* the summary files in the channel's directory
    sdir,          \* whether the channel's directory exists
    lastClean,     \* lastClean of the channel, NoClean when absent
    clock,         \* time.Now()
    ptasks,        \* persistence handlers started and not yet run
    loaded,        \* whether the loader goroutine has merged the files
    received,      \* history: the summaries handed to insertSummaries
    shist,         \* history: the last persistence handler run
    \* ---- queries over the cabinet (ningen.go) ----
    qin,           \* the state a query is asked in
    qout,          \* what it returned
    \* ---- summary file writes (unnamed/part_012) ----
    wos,           \* runtime.GOOS: "linux" or "windows"
    wpc,           \* where the writeToFile call is: "idle", "created", "written", "direct"
    wdata,         \* the data of the call
    wtarget,       \* the file at path: 0 absent, d complete data d, -d part of d
    wcur,          \* the call's temp file: <<>> if none, else its content
    wtmps,         \* temp files in the directory that no call owns any more
    wres,          \* what the last call returned: "none", "ok", "err", or "crash"
    nWrites,       \* writeToFile calls so far
    wcrashes       \* crashes so far that left a temp file behind

kvars == <<gw, nEv, cur, pending, deliv, synth, initd, openPc, openRes, ctxDone,
           nOpen, raised, dropped, firstReady, readyOffered>>

hvars == <<hs>>

idvars == <<owIn, owPerm, idA, idB>>

lvars == <<ml, evOpen, evI, crashed, errs, fwd, nOps, before, ref, inRange>>

rvars == <<minFetched, tasks, subChannels, lastSent, nSent, subErrs, ret, lastReq, nReq>>

mvars == <<store, reqing, calls, mtasks, cmds, memErrs, chunked, nCalls>>

\* The stores and substates besides the member list.
rdvars == <<selfID, states, known, msgs, rtasks, updates, nAcks, nRd, lastOp, lastMark>>

mtvars == <<now, mguilds, mchannels, cab, msgIn, verdict, asked, mmaps>>

pvars == <<presences, userGuilds, plist, plast>>

sumvars == <<summaries, sfiles, sdir, lastClean, clock, ptasks, loaded, received, shist>>

qvars == <<qin, qout>>

wvars == <<wos, wpc, wdata, wtarget, wcur, wtmps, wres, nWrites, wcrashes>>

tvars == <<sumvars, qvars, wvars>>

svars == <<mvars, rdvars, mtvars, pvars, tvars>>

vars == <<kvars, hvars, idvars, lvars, rvars, svars>>

\* ------------------------------------------------------------------ bounds
MaxEvents == 3
MaxOpens == 2
MaxHandles == 4
MaxOverwrites == 3
MaxID == 3
MaxIdx == 2
MaxItems == 2
MaxListOps == 3
MaxChunk == 2
MaxCount == 3
MaxReqs == 3
MaxCalls == 4
MaxMsg == 2
MaxReadOps == 3
MaxTime == 1
MaxPresOps == 3
MaxSumEvents == 2
MaxClock == 3
MaxChans == 3
MaxData == 2
MaxWrites == 3

\* ------------------------------------------------------------ event kernel

\* make(chan struct{}, 1)
InitdCap == 1

\* The handlers bound to s.Handler, in the order FromState registers them.
\* sync is TRUE for AddSyncHandler (run inside Call) and FALSE for AddHandler
\* (Call spawns a goroutine for it).
Handlers == <<
    [sub |-> "note",         kind |-> "UserNoteUpdate",          sync |-> FALSE],
    [sub |-> "read",         kind |-> "Ready",                   sync |-> TRUE],
    [sub |-> "read",         kind |-> "MessageAck",              sync |-> TRUE],
    [sub |-> "read",         kind |-> "MessageCreate",           sync |-> TRUE],
    [sub |-> "mute",         kind |-> "Ready",                   sync |-> FALSE],
    [sub |-> "mute",         kind |-> "UserGuildSettingsUpdate", sync |-> FALSE],
    [sub |-> "guild",        kind |-> "Ready",                   sync |-> TRUE],
    [sub |-> "member",       kind |-> "GuildMemberListUpdate",   sync |-> FALSE],
    [sub |-> "member",       kind |-> "GuildMemberListUpdate",   sync |-> FALSE],
    [sub |-> "member",       kind |-> "GuildMembersChunk",       sync |-> FALSE],
    [sub |-> "relationship", kind |-> "Ready",                   sync |-> FALSE],
    [sub |-> "relationship", kind |-> "RelationshipAdd",         sync |-> FALSE],
    [sub |-> "relationship", kind |-> "RelationshipRemove",      sync |-> FALSE],
    [sub |-> "ningen",       kind |-> "any",                     sync |-> TRUE] >>

\* The handler FromState adds last with s.AddSyncHandler.
KernelPos == Len(Handlers)

\* The gateway events dispatched: the three the kernel handler switches on,
\* and one for each way the substates are bound (one synchronous handler,
\* one asynchronous handler, two asynchronous handlers of one substate).
EventKinds == {"Ready", "Resumed", "Close", "MessageCreate",
               "UserGuildSettingsUpdate", "GuildMemberListUpdate"}

NoEvent == [id |-> 0, kind |-> "none", pos |-> 0]

Matches(p, k) == Handlers[p].kind = "any" \/ Handlers[p].kind = k

\* Handler.Call walks the entries in order; the next one bound to kind k.
NextPos(k, p) == CHOOSE q \in (p + 1)..KernelPos :
                    /\ Matches(q, k)
                    /\ \A r \in (p + 1)..(q - 1) : ~Matches(r, k)

\* The substate handlers bound to kind k.
Prehandlers(k) == {p \in 1..(KernelPos - 1) : Handlers[p].kind = k}

\* Handler p has finished applying event e.
Applied(e, p) ==
    /\ e >= 1 /\ e <= nEv
    /\ (cur.id = e => cur.pos > p)
    /\ <<e, p>> \notin pending

KInit ==
    /\ gw = "closed"
    /\ nEv = 0
    /\ cur = NoEvent
    /\ pending = {}
    /\ deliv = 0
    /\ synth = "none"
    /\ initd = 0
    /\ openPc = "idle"
    /\ openRes = "none"
    /\ ctxDone = FALSE
    /\ nOpen = 0
    /\ raised = 0
    /\ dropped = 0
    /\ firstReady = 0
    /\ readyOffered = FALSE

\* The gateway hands the next event to s.Handler.Call, one event at a time.
Dispatch ==
    /\ gw = "open"
    /\ cur = NoEvent
    /\ nEv < MaxEvents
    /\ \E k \in EventKinds :
          cur' = [id |-> nEv + 1, kind |-> k, pos |-> NextPos(k, 0)]
    /\ nEv' = nEv + 1
    /\ UNCHANGED <<gw, pending, deliv, synth, initd, openPc, openRes, ctxDone,
                   nOpen, raised, dropped, firstReady, readyOffered>>

\* Call reaches a substate's handler: a synchronous one runs now, inside
\* Call; for an asynchronous one Call only spawns the goroutine.
CallHandler ==
    /\ cur # NoEvent
    /\ cur.pos < KernelPos
    /\ pending' = IF Handlers[cur.pos].sync
                  THEN pending
                  ELSE pending \cup {<<cur.id, cur.pos>>}
    /\ cur' = [cur EXCEPT !.pos = NextPos(cur.kind, cur.pos)]
    /\ UNCHANGED <<gw, nEv, deliv, synth, initd, openPc, openRes, ctxDone,
                   nOpen, raised, dropped, firstReady, readyOffered>>

\* A spawned handler goroutine runs to completion.
RunTask ==
    /\ \E t \in pending : pending' = pending \ {t}
    /\ UNCHANGED <<gw, nEv, cur, deliv, synth, initd, openPc, openRes, ctxDone,
                   nOpen, raised, dropped, firstReady, readyOffered>>

\* A blocking send in place of the select with a default branch.
SignalReadyBlocking ==
    /\ initd < InitdCap
    /\ initd' = initd + 1
    /\ raised' = raised + 1
    /\ UNCHANGED dropped

\* select { case state.initd <- struct{}{}: default: }
SignalReady ==
    IF initd < InitdCap
    THEN initd' = initd + 1 /\ raised' = raised + 1 /\ UNCHANGED dropped
    ELSE dropped' = dropped + 1 /\ UNCHANGED <<initd, raised>>

\* The synchronous handler FromState adds after the substates: offer the
\* ready signal, then hand the synthetic event and the event itself to the
\* application-facing state.Handler.
KernelHandler ==
    /\ cur # NoEvent
    /\ cur.pos = KernelPos
    /\ IF cur.kind = "Ready"
       THEN /\ SignalReady
            /\ readyOffered' = TRUE
            /\ firstReady' = IF firstReady = 0 THEN cur.id ELSE firstReady
       ELSE UNCHANGED <<initd, raised, dropped, readyOffered, firstReady>>
    /\ synth' = CASE cur.kind \in {"Ready", "Resumed"} -> "Connected"
                  [] cur.kind = "Close" -> "Disconnected"
                  [] OTHER -> "none"
    /\ deliv' = cur.id
    /\ cur' = NoEvent
    /\ UNCHANGED <<gw, nEv, pending, openPc, openRes, ctxDone, nOpen>>

\* Open entered without emptying the channel first.
OpenNoDrain == UNCHANGED initd

\* select { case <-s.initd: default: }
OpenDrain == initd' = 0

\* Open is called with a fresh context and first frees the channel.
OpenCall ==
    /\ openPc = "idle"
    /\ nOpen < MaxOpens
    /\ OpenDrain
    /\ openPc' = "drained"
    /\ openRes' = "none"
    /\ ctxDone' = FALSE
    /\ nOpen' = nOpen + 1
    /\ firstReady' = 0
    /\ readyOffered' = FALSE
    /\ UNCHANGED <<gw, nEv, cur, pending, deliv, synth, raised, dropped>>

\* s.State.Open(ctx): the gateway starts, or Open returns its error.
StateOpen ==
    /\ openPc = "drained"
    /\ \/ /\ gw = "closed"
          /\ gw' = "open"
          /\ openPc' = "waiting"
          /\ UNCHANGED openRes
       \/ /\ openPc' = "idle"
          /\ openRes' = "openErr"
          /\ UNCHANGED gw
    /\ UNCHANGED <<nEv, cur, pending, deliv, synth, initd, ctxDone, nOpen,
                   raised, dropped, firstReady, readyOffered>>

\* The caller's context is cancelled or times out.
CtxCancel ==
    /\ openPc # "idle"
    /\ ~ctxDone
    /\ ctxDone' = TRUE
    /\ UNCHANGED <<gw, nEv, cur, pending, deliv, synth, initd, openPc, openRes,
                   nOpen, raised, dropped, firstReady, readyOffered>>

\* The final select of Open: whichever ready case Go picks.
OpenWait ==
    /\ openPc = "waiting"
    /\ \/ /\ ctxDone
          /\ openRes' = "ctxErr"
          /\ UNCHANGED initd
       \/ /\ initd > 0
          /\ initd' = initd - 1
          /\ openRes' = "nil"
    /\ openPc' = "idle"
    /\ UNCHANGED <<gw, nEv, cur, pending, deliv, synth, ctxDone, nOpen,
                   raised, dropped, firstReady, readyOffered>>

\* The application closes the session between two Open calls.
Close ==
    /\ openPc = "idle"
    /\ gw = "open"
    /\ gw' = "closed"
    /\ UNCHANGED <<nEv, cur, pending, deliv, synth, initd, openPc, openRes,
                   ctxDone, nOpen, raised, dropped, firstReady, readyOffered>>

\* ------------------------------------------------------- claims: kernel

\* The substate handlers bound to the Ready event.
ReadyPrehandlers == Prehandlers("Ready")

\* C1: Open returns nil only after the first Ready handled since it started
\* has been applied by every substate handler bound to Ready: none of them
\* is still to run or running when Open has returned nil.
C1_OpenAfterReadyPrehandlers ==
    openRes = "nil" =>
        /\ firstReady # 0
        /\ \A p \in ReadyPrehandlers : Applied(firstReady, p)

\* C2: an event (and the Connected/Disconnected made from it) is handed to
\* the application-facing handlers only after every substate handler bound
\* to it has finished applying it.
C2_AppAfterPrehandlers ==
    \A e \in 1..deliv : \A p \in 1..(KernelPos - 1) :
        Matches(p, "any") \/ <<e, p>> \notin pending

\* The kernel handler is about to run for the current event.
AtKernel == cur # NoEvent /\ cur.pos = KernelPos

C4_OpenContext ==
    /\ [](openRes = "nil" => readyOffered)
    /\ [](openPc = "waiting" /\ ctxDone => ENABLED OpenWait)
    /\ [][(openPc = "waiting" /\ ctxDone /\ ~readyOffered /\ openPc' = "idle")
             => openRes' = "ctxErr"]_vars

\* C4 witness: the gateway was started, the context was cancelled before any
\* Ready, and Open returned the context's error.
C4_Witness == openRes = "ctxErr" /\ gw = "open" /\ ~readyOffered /\ nOpen >= 1

\* ------------------------------------------------- Offline/Online handles

\* The contexts a handle can be bound to: two live ones, and cancelledCtx.
LiveCtx == {"ctxA", "ctxB"}
CancelledCtx == "cancelled"
NilCtx == "nil"

\* cpy := *s; cpy.State = cpy.State.WithContext(ctx)
WithContext(s, ctx) == [s EXCEPT !.ctx = ctx]

\* Offline: the copy runs on cancelledCtx and remembers s.Context().
Offline(s) == [WithContext(s, CancelledCtx) EXCEPT !.oldCtx = s.ctx]

\* Online: s itself when oldCtx is nil, else a copy bound to oldCtx.
Online(s) ==
    IF s.oldCtx = NilCtx
    THEN s
    ELSE [WithContext(s, s.oldCtx) EXCEPT !.oldCtx = NilCtx]

\* History kept with a derived handle s: how it was made (via, from), and,
\* when s comes from a handle bound to a live context by Offline calls only,
\* that context (origin) and the number of calls (offs).
Entry(s, via, from, origin, offs) ==
    [s |-> s, via |-> via, from |-> from,
     origin |-> IF s.ctx \in LiveCtx THEN s.ctx ELSE origin,
     offs |-> IF s.ctx \in LiveCtx THEN 0 ELSE offs]

\* FromState: the handle runs on the state's context; oldCtx is not set.
HInit == hs = <<Entry([ctx |-> "ctxA", oldCtx |-> NilCtx], "FromState", 0, NilCtx, 0)>>

HWithContext ==
    /\ Len(hs) < MaxHandles
    /\ \E i \in 1..Len(hs) : \E c \in LiveCtx :
          hs' = Append(hs, Entry(WithContext(hs[i].s, c), "WithContext", i, NilCtx, 0))

HOffline ==
    /\ Len(hs) < MaxHandles
    /\ \E i \in 1..Len(hs) :
          hs' = Append(hs, Entry(Offline(hs[i].s), "Offline", i, hs[i].origin,
                                 IF hs[i].origin = NilCtx THEN 0 ELSE hs[i].offs + 1))

HOnline ==
    /\ Len(hs) < MaxHandles
    /\ \E i \in 1..Len(hs) :
          hs' = Append(hs, Entry(Online(hs[i].s), "Online", i, NilCtx, 0))

\* C5: Offline() of a handle bound to a live context is bound to a cancelled
\* context; Online() of a handle derived from a live handle h by one or more
\* Offline() calls is bound to h's context; Online() of a handle that is not
\* offline is that handle.
C5_OnlineRestoresOriginal ==
    \A j \in 2..Len(hs) :
        LET x == hs[j]
            y == hs[x.from]
        IN  /\ (x.via = "Offline" /\ y.s.ctx \in LiveCtx) => x.s.ctx = CancelledCtx
            /\ (x.via = "Online" /\ y.offs >= 1) => x.s.ctx = y.origin
            /\ (x.via = "Online" /\ y.s.oldCtx = NilCtx) => x.s = y.s

\* ---------------------------------------------------------- ComputeListID

\* Strings are sequences of bytes; a uint32 is <<high 16 bits, low 16 bits>>.

RECURSIVE Decimal(_)
\* Snowflake.String and strconv.FormatUint(_, 10) for a number below 2^31.
Decimal(n) == IF n < 10 THEN <<48 + n>> ELSE Append(Decimal(n \div 10), 48 + (n % 10))

RECURSIVE Join(_)
\* strings.Join(input, ",")
Join(input) ==
    IF Len(input) = 0 THEN <<>>
    ELSE IF Len(input) = 1 THEN input[1]
    ELSE input[1] \o <<44>> \o Join(Tail(input))

\* a ^ b for 4-bit a, b
Xor4(a, b) ==
    ((a + b) % 2) + 2 * (((a \div 2) + (b \div 2)) % 2)
        + 4 * (((a \div 4) + (b \div 4)) % 2) + 8 * (((a \div 8) + (b \div 8)) % 2)

\* a ^ b for 16-bit a, b
Xor16(a, b) ==
    Xor4(a % 16, b % 16) + 16 * Xor4((a \div 16) % 16, (b \div 16) % 16)
        + 256 * Xor4((a \div 256) % 16, (b \div 256) % 16)
        + 4096 * Xor4(a \div 4096, b \div 4096)

Xor32(x, y) == <<Xor16(x[1], y[1]), Xor16(x[2], y[2])>>

\* bits.RotateLeft32(x, r) for 0 < r < 16
Rotl32(x, r) ==
    LET p == 2 ^ r
        q == 2 ^ (16 - r)
    IN  <<(x[1] % q) * p + (x[2] \div q), (x[2] % q) * p + (x[1] \div q)>>

\* x >> r for 0 < r <= 16
Shr32(x, r) ==
    LET p == 2 ^ r
        q == 2 ^ (16 - r)
    IN  <<x[1] \div p, (x[1] % p) * q + (x[2] \div p)>>

\* a * b mod 2^16 for 16-bit a, b, without leaving 31 bits
Mul16(a, b) == (a * (b % 256) + ((a * (b \div 256)) % 256) * 256) % 65536

\* x * y mod 2^32
Mul32(x, y) ==
    LET p1 == x[2] * (y[2] % 256)
        p2 == x[2] * (y[2] \div 256)
        low == p1 + (p2 % 256) * 256
    IN  <<(Mul16(x[1], y[2]) + Mul16(x[2], y[1]) + (p2 \div 256) + (low \div 65536)) % 65536,
          low % 65536>>

\* x + y mod 2^32
Add32(x, y) ==
    <<(x[1] + y[1] + ((x[2] + y[2]) \div 65536)) % 65536, (x[2] + y[2]) % 65536>>

\* murmur3: k *= c1; k = rotl(k, 15); k *= c2
MixK(k) == Mul32(Rotl32(Mul32(k, <<52382, 11601>>), 15), <<7047, 13715>>)

\* murmur3: one 4-byte block k folded into h
MixBlock(h, k) ==
    Add32(Mul32(Rotl32(Xor32(h, MixK(k)), 13), <<0, 5>>), <<58964, 27492>>)

RECURSIVE MixBlocks(_, _, _)
\* murmur3: the 4-byte little-endian blocks from byte i on
MixBlocks(h, data, i) ==
    IF i + 3 > Len(data) THEN h
    ELSE LET k == <<data[i + 3] * 256 + data[i + 2], data[i + 1] * 256 + data[i]>>
         IN  CHOOSE r \in {MixBlocks(h1, data, i + 4) : h1 \in {MixBlock(h, k)}} : TRUE

\* murmur3: the 1 to 3 bytes left after the blocks
MixTail(h, data) ==
    LET n == Len(data)
        t == n - (n % 4)
        k == <<IF n % 4 = 3 THEN data[t + 3] ELSE 0,
               (IF n % 4 >= 2 THEN data[t + 2] * 256 ELSE 0) +
               (IF n % 4 >= 1 THEN data[t + 1] ELSE 0)>>
    IN  IF n % 4 = 0 THEN h ELSE Xor32(h, MixK(k))

\* murmur3: the final avalanche
Fmix(h) ==
    CHOOSE r \in
        {Xor32(b, Shr32(b, 16)) :
            b \in {Mul32(Xor32(a, Shr32(a, 13)), <<49842, 44597>>) :
                a \in {Mul32(Xor32(h, Shr32(h, 16)), <<34283, 51819>>)}}} : TRUE

\* murmur3.StringSum32 (seed 0)
StringSum32(data) ==
    CHOOSE r \in
        {Fmix(Xor32(t, <<Len(data) \div 65536, Len(data) % 65536>>)) :
            t \in {MixTail(b, data) : b \in {MixBlocks(<<0, 0>>, data, 1)}}} : TRUE

RECURSIVE FormatUint(_)
\* strconv.FormatUint(uint64(h), 10)
FormatUint(x) ==
    IF x[1] = 0 THEN Decimal(x[2])
    ELSE LET rem == (x[1] % 10) * 65536 + x[2]
         IN  Append(FormatUint(<<x[1] \div 10, rem \div 10>>), 48 + (rem % 10))

\* The IDs of the overwrites that allow view-channel, in input order.
Allows(overrides) ==
    LET a == SelectSeq(overrides, LAMBDA perm : perm.allow)
    IN  [i \in 1..Len(a) |-> a[i].id]

\* The IDs of the overwrites that do not allow but deny it, in input order.
Denies(overrides) ==
    LET d == SelectSeq(overrides, LAMBDA perm : ~perm.allow /\ perm.deny)
    IN  [i \in 1..Len(d) |-> d[i].id]

\* The string handed to murmur3.
Mm3Input(overrides) ==
    LET allows == Allows(overrides)
        denies == Denies(overrides)
    IN  Join([i \in 1..Len(allows) |-> <<97, 108, 108, 111, 119, 58>> \o Decimal(allows[i])]
             \o [i \in 1..Len(denies) |-> <<100, 101, 110, 121, 58>> \o Decimal(denies[i])])

ComputeListID(overrides) ==
    IF Len(Allows(overrides)) = 0 /\ Len(Denies(overrides)) = 0
    THEN "everyone"
    ELSE FormatUint(StringSum32(Mm3Input(overrides)))

\* An overwrite: its ID, and whether Allow and Deny hold PermissionViewChannel.
Overwrites == [id : 1..MaxID, allow : BOOLEAN, deny : BOOLEAN]

\* The overwrite lists of a channel: no ID twice.
OverwriteLists ==
    UNION {{o \in [1..n -> Overwrites] :
               \A i, j \in 1..n : i # j => o[i].id # o[j].id} : n \in 0..MaxOverwrites}

Reorderings(o) ==
    {[i \in 1..Len(o) |-> o[f[i]]] :
        f \in {g \in [1..Len(o) -> 1..Len(o)] : \A i, j \in 1..Len(o) : i # j => g[i] # g[j]}}

IdInit0 == owIn = <<>> /\ owPerm = <<>> /\ idA = "none" /\ idB = "none"

IdInit == owIn \in OverwriteLists /\ owPerm = <<>> /\ idA = "none" /\ idB = "none"

\* The list ID is computed for the channel's overwrites and for a reordering.
IdCompute ==
    /\ idA = "none"
    /\ \E o \in Reorderings(owIn) : owPerm' = o /\ idB' = ComputeListID(o)
    /\ idA' = ComputeListID(owIn)
    /\ UNCHANGED owIn

IsAscending(ids) == \A i \in 1..(Len(ids) - 1) : ids[i] < ids[i + 1]

\* C6: ComputeListID gives the same ID for every order of the same
\* overwrites; the hashed string lists the allow IDs ascending, then the
\* deny IDs ascending.
C6_ListIDOrderIndependent ==
    idA # "none" =>
        /\ idA = idB
        /\ IsAscending(Allows(owIn)) /\ IsAscending(Denies(owIn))

\* ------------------------------------------------------- member list ops

\* The zero gateway.GuildMemberListOpItem: ListItemIsNil holds of it.
Zero == "nil"
ItemVals == {"a", "b"}

ListItemIsNil(it) == it = Zero

\* NewList: no counts, no groups, a nil items slice.
NewList == [stored |-> FALSE, memberCount |-> 0, onlineCount |-> 0, offline |-> FALSE, arr |-> <<>>, len |-> 0]

\* guild.lists holds the list once onListUpdate has stored it.
Stored(l) == [l EXCEPT !.stored = TRUE]

\* ml.items: the first len slots of the backing array.
Items(l) == SubSeq(l.arr, 1, l.len)

\* The capacity append gives a slice that has to grow to hold need items:
\* the language leaves it to the runtime, which fits it or doubles it.
NewCap(cap, need, policy) ==
    IF policy = "double" /\ 2 * cap > need THEN 2 * cap ELSE need

\* append(items, make([]Item, maxLen-len(items))...)
AppendZeros(st, maxLen, policy) ==
    IF maxLen <= Len(st.arr)
    THEN [st EXCEPT !.len = maxLen,
                    !.arr = [i \in 1..Len(st.arr) |->
                                IF i > st.len /\ i <= maxLen THEN Zero ELSE st.arr[i]]]
    ELSE [st EXCEPT !.len = maxLen,
                    !.arr = [i \in 1..NewCap(Len(st.arr), maxLen, policy) |->
                                IF i <= st.len THEN st.arr[i] ELSE Zero]]

growItems(st, maxLen, policy) ==
    IF st.len >= maxLen THEN st ELSE AppendZeros(st, maxLen, policy)

\* case "SYNC"
ApplySync(st, op, policy) ==
    LET start == op.range[1]
        g == growItems(st, op.range[2] + 1, policy)
    IN  IF start + Len(op.items) > g.len
        THEN [g EXCEPT !.panic = TRUE]
        ELSE [g EXCEPT !.fwd = op,
                       !.arr = [i \in 1..Len(g.arr) |->
                                   IF i > start /\ i <= start + Len(op.items)
                                   THEN op.items[i - start] ELSE g.arr[i]]]

\* case "INVALIDATE"
ApplyInvalidate(st, op) ==
    LET start == op.range[1]
        end == op.range[2]
    IN  IF start > end \/ end > Len(st.arr)
        THEN [st EXCEPT !.panic = TRUE]
        ELSE [st EXCEPT !.fwd = [op EXCEPT !.items = SubSeq(st.arr, start + 1, end)],
                        !.arr = [i \in 1..Len(st.arr) |->
                                    IF i > start /\ i <= end /\ i <= st.len
                                    THEN Zero ELSE st.arr[i]]]

\* case "INSERT"
ApplyInsert(st, op, policy) ==
    LET g == AppendZeros(st, st.len + 1, policy)
        oi == op.index
    IN  [g EXCEPT !.fwd = op,
                  !.arr = [i \in 1..Len(g.arr) |->
                              IF i = oi + 1 THEN op.item
                              ELSE IF i > oi + 1 /\ i <= g.len THEN g.arr[i - 1]
                              ELSE g.arr[i]]]

\* case "UPDATE"
ApplyUpdate(st, op) ==
    [st EXCEPT !.fwd = op, !.arr = [st.arr EXCEPT ![op.index + 1] = op.item]]

\* case "DELETE": i is the op's place in ev.Ops
ApplyDelete(st, op, i) ==
    IF i >= st.len
    THEN [st EXCEPT !.panic = TRUE]
    ELSE [st EXCEPT !.fwd = [op EXCEPT !.item = st.arr[i + 1]],
                    !.len = st.len - 1,
                    !.arr = [j \in 1..Len(st.arr) |->
                                IF j > op.index /\ j < st.len THEN st.arr[j + 1]
                                ELSE st.arr[j]]]

\* One turn of the loop over ev.Ops in onListUpdate.
ApplyOp(st, op, i, policy) ==
    CASE op.op = "SYNC" -> ApplySync(st, op, policy)
      [] op.op = "INVALIDATE" -> ApplyInvalidate(st, op)
      [] OTHER ->
            LET length == IF op.op = "INSERT" THEN st.len + 1 ELSE st.len
            IN  IF length = 0 \/ length <= op.index
                THEN [st EXCEPT !.errs = st.errs + 1, !.fwd = op]
                ELSE CASE op.op = "INSERT" -> ApplyInsert(st, op, policy)
                       [] op.op = "UPDATE" -> ApplyUpdate(st, op)
                       [] op.op = "DELETE" -> ApplyDelete(st, op, i)

RECURSIVE FilledLen(_, _)
\* The clean-up loop: the length without the trailing nil items.
FilledLen(arr, n) ==
    IF n >= 1 /\ ListItemIsNil(arr[n]) THEN FilledLen(arr, n - 1) ELSE n

\* The ops a GuildMemberListUpdate can carry.
Ranges == (0..MaxIdx) \X (0..MaxIdx)
Roster == <<"a", "b", "a", "b">>
ItemSeqs == {SubSeq(Roster, 1, n) : n \in 0..MaxItems}
NoOp == [op |-> "none", range |-> <<0, 0>>, items |-> <<>>, index |-> 0, item |-> Zero]
Ops ==
    {[NoOp EXCEPT !.op = "SYNC", !.range = r, !.items = it] : r \in Ranges, it \in ItemSeqs}
    \cup {[NoOp EXCEPT !.op = "INVALIDATE", !.range = r] : r \in Ranges}
    \cup {[NoOp EXCEPT !.op = o, !.index = x, !.item = v] :
             o \in {"INSERT", "UPDATE"}, x \in 0..MaxIdx, v \in ItemVals}
    \cup {[NoOp EXCEPT !.op = "DELETE", !.index = x] : x \in 0..MaxIdx}

\* ---- the reference: a dense position-indexed vector ----

RefGrow(v, n) == IF Len(v) >= n THEN v ELSE v \o [i \in 1..(n - Len(v)) |-> Zero]

RefOp(v, op) ==
    CASE op.op = "SYNC" ->
            LET g == RefGrow(v, op.range[2] + 1)
            IN  [i \in 1..Len(g) |->
                    IF i > op.range[1] /\ i <= op.range[1] + Len(op.items)
                    THEN op.items[i - op.range[1]] ELSE g[i]]
      [] op.op = "INVALIDATE" ->
            [i \in 1..Len(v) |-> IF i > op.range[1] /\ i <= op.range[2] + 1 THEN Zero ELSE v[i]]
      [] op.op = "INSERT" ->
            SubSeq(v, 1, op.index) \o <<op.item>> \o SubSeq(v, op.index + 1, Len(v))
      [] op.op = "UPDATE" -> [v EXCEPT ![op.index + 1] = op.item]
      [] op.op = "DELETE" -> SubSeq(v, 1, op.index) \o SubSeq(v, op.index + 2, Len(v))

\* op's indices are in range for a vector v.
OpInRange(v, op) ==
    CASE op.op = "SYNC" ->
            op.range[1] <= op.range[2] /\ Len(op.items) <= op.range[2] - op.range[1] + 1
      [] op.op = "INVALIDATE" -> op.range[1] <= op.range[2] /\ op.range[2] < Len(v)
      [] op.op = "INSERT" -> op.index <= Len(v)
      [] OTHER -> op.index < Len(v)

RefTrim(v) == SubSeq(v, 1, FilledLen(v, Len(v)))

LInit ==
    /\ ml = NewList
    /\ evOpen = FALSE
    /\ evI = 0
    /\ crashed = FALSE
    /\ errs = 0
    /\ fwd = NoOp
    /\ nOps = 0
    /\ before = <<>>
    /\ ref = <<>>
    /\ inRange = TRUE

\* onListUpdate for an event without ops: the counts and groups, the clean-up.
ListUpdateEmpty(mc, oc, off) ==
    /\ ~crashed
    /\ ~evOpen
    /\ ml' = [Stored(ml) EXCEPT !.memberCount = mc, !.onlineCount = oc, !.offline = off,
                                !.len = FilledLen(ml.arr, ml.len)]
    /\ errs' = 0
    /\ UNCHANGED <<evOpen, evI, crashed, fwd, nOps, before, ref, inRange>>

\* onListUpdate, one op of the event at a time: the first op's step also
\* takes the counts and groups, the last op's step also cleans up.
ListUpdateOp(mc, oc, off, first, last) ==
    /\ ~crashed
    /\ evOpen = ~first
    /\ nOps < MaxListOps
    /\ \E op \in Ops : \E policy \in {"fit", "double"} :
          LET head == IF first
                      THEN [Stored(ml) EXCEPT !.memberCount = mc, !.onlineCount = oc,
                                              !.offline = off]
                      ELSE ml
              i == IF first THEN 0 ELSE evI
              st == ApplyOp([arr |-> head.arr, len |-> head.len, panic |-> FALSE,
                             errs |-> IF first THEN 0 ELSE errs, fwd |-> NoOp],
                            op, i, policy)
              r == ref
              ok == inRange /\ OpInRange(r, op)
          IN  /\ crashed' = st.panic
              /\ ml' = [head EXCEPT !.arr = st.arr,
                                    !.len = IF last /\ ~st.panic
                                            THEN FilledLen(st.arr, st.len) ELSE st.len]
              /\ errs' = st.errs
              /\ fwd' = st.fwd
              /\ before' = Items(head)
              /\ inRange' = ok
              /\ ref' = IF ok THEN (IF last THEN RefTrim(RefOp(r, op)) ELSE RefOp(r, op))
                        ELSE <<>>
              /\ evOpen' = (st.panic \/ ~last)
              /\ evI' = IF last /\ ~st.panic THEN 0 ELSE i + 1
    /\ nOps' = nOps + 1

\* C7: as long as every op's indices are in range, onListUpdate does not
\* fault and after each event the items equal the reference vector with
\* its trailing nil slots trimmed.
C7_MatchesReference ==
    inRange => /\ ~crashed
               /\ (~evOpen => Items(ml) = ref)

\* The last op was an INSERT, UPDATE or DELETE with an index outside the items.
LastOpOutOfBounds ==
    /\ nOps > 0
    /\ fwd.op \in {"INSERT", "UPDATE", "DELETE"}
    /\ fwd.index >= Len(before) + (IF fwd.op = "INSERT" THEN 1 ELSE 0)

\* C8: onListUpdate never faults on ops with non-negative indices and
\* ranges: an INSERT, UPDATE or DELETE outside the items is reported
\* through OnError and changes nothing, and the loop goes on.
C8_NeverFaults ==
    /\ ~crashed
    /\ (LastOpOutOfBounds /\ evOpen) => (errs >= 1 /\ Items(ml) = before)

\* ------------------------------------------------- RequestMemberList

MaxMemberChunk == 3 - 1
firstChunk == <<<<0, 99>>>>

\* GetMemberListChunk's answer for a channel without a recorded chunk.
NoChunk == -1
Channels == {"c1", "c2"}

TotalVisible(l) == IF l.offline THEN l.memberCount ELSE l.onlineCount

chunkEq(chk1, chk2) ==
    /\ Len(chk1) = Len(chk2)
    /\ \A i \in 1..2 : \A j \in 1..Len(chk1) : chk1[j][i] = chk2[j][i]

RInit ==
    /\ minFetched = [c \in Channels |-> NoChunk]
    /\ tasks = <<>>
    /\ subChannels = [c \in Channels |-> <<>>]
    /\ lastSent = [c \in Channels |-> <<>>]
    /\ nSent = 0
    /\ subErrs = 0
    /\ ret = <<>>
    /\ lastReq = [channel |-> "c1", chunk |-> 0, known |-> FALSE, visible |-> 0, failed |-> FALSE]
    /\ nReq = 0

\* RequestMemberList without the check for the chunk already recorded.
RequestMemberListNoEq(channelID, k) ==
    /\ ~crashed
    /\ nReq < MaxReqs
    /\ nReq' = nReq + 1
    /\ LET total == IF ml.stored THEN TotalVisible(ml) \div 100 ELSE -1
           ok == minFetched[channelID] # NoChunk
           start == IF ok THEN minFetched[channelID] ELSE 0
           chunk == IF total > -1 /\ k + 1 > total THEN total ELSE k + 1
           from == IF chunk - MaxMemberChunk < 1 THEN 1 ELSE chunk - MaxMemberChunk
           chunks == firstChunk \o [i \in 1..(chunk - from) |->
                                       <<(from + i - 1) * 100, (from + i - 1) * 100 + 99>>]
       IN  IF FALSE
           THEN /\ ret' = <<>>
                /\ UNCHANGED <<minFetched, tasks, crashed>>
           ELSE /\ minFetched' = [minFetched EXCEPT ![channelID] = k]
                /\ IF chunk < start
                   THEN ret' = <<>> /\ UNCHANGED <<tasks, crashed>>
                   ELSE IF chunk - from + 1 < 1
                   THEN \* make([][2]int, 1, 0)
                        ret' = <<>> /\ crashed' = TRUE /\ UNCHANGED tasks
                   ELSE /\ ret' = chunks
                        /\ tasks' = Append(tasks, [channel |-> channelID, chunks |-> chunks])
                        /\ UNCHANGED crashed
    /\ lastReq' = [channel |-> channelID, chunk |-> k, known |-> ml.stored,
                   visible |-> TotalVisible(ml), failed |-> crashed']
    /\ UNCHANGED <<ml, evOpen, evI, errs, fwd, nOps, before, ref, inRange>>
    /\ UNCHANGED <<subChannels, lastSent, nSent, subErrs>>

\* RequestMemberList up to the go statement.
RequestMemberList(channelID, k) ==
    /\ ~crashed
    /\ nReq < MaxReqs
    /\ nReq' = nReq + 1
    /\ LET total == IF ml.stored THEN TotalVisible(ml) \div 100 ELSE -1
           ok == minFetched[channelID] # NoChunk
           start == IF ok THEN minFetched[channelID] ELSE 0
           chunk == IF total > -1 /\ k + 1 > total THEN total ELSE k + 1
           from == IF chunk - MaxMemberChunk < 1 THEN 1 ELSE chunk - MaxMemberChunk
           chunks == firstChunk \o [i \in 1..(chunk - from) |->
                                       <<(from + i - 1) * 100, (from + i - 1) * 100 + 99>>]
       IN  IF ok /\ k = start
           THEN /\ ret' = <<>>
                /\ UNCHANGED <<minFetched, tasks, crashed>>
           ELSE /\ minFetched' = [minFetched EXCEPT ![channelID] = k]
                /\ IF chunk < start
                   THEN ret' = <<>> /\ UNCHANGED <<tasks, crashed>>
                   ELSE IF chunk - from + 1 < 1
                   THEN \* make([][2]int, 1, 0)
                        ret' = <<>> /\ crashed' = TRUE /\ UNCHANGED tasks
                   ELSE /\ ret' = chunks
                        /\ tasks' = Append(tasks, [channel |-> channelID, chunks |-> chunks])
                        /\ UNCHANGED crashed
    /\ lastReq' = [channel |-> channelID, chunk |-> k, known |-> ml.stored,
                   visible |-> TotalVisible(ml), failed |-> crashed']
    /\ UNCHANGED <<ml, evOpen, evI, errs, fwd, nOps, before, ref, inRange>>
    /\ UNCHANGED <<subChannels, lastSent, nSent, subErrs>>

\* The goroutine without the reset of the other channels.
SendTaskNoReset(n, fail) ==
    /\ ~crashed
    /\ n \in 1..Len(tasks)
    /\ tasks' = SubSeq(tasks, 1, n - 1) \o SubSeq(tasks, n + 1, Len(tasks))
    /\ LET t == tasks[n]
       IN  IF subChannels[t.channel] # <<>> /\ chunkEq(subChannels[t.channel], t.chunks)
           THEN UNCHANGED <<subChannels, lastSent, nSent, subErrs>>
           ELSE /\ subChannels' = [id \in Channels |->
                                      IF id = t.channel THEN t.chunks
                                      ELSE subChannels[id]]
                /\ lastSent' = subChannels'
                /\ nSent' = nSent + 1
                /\ subErrs' = IF fail THEN subErrs + 1 ELSE subErrs
    /\ UNCHANGED <<minFetched, ret, lastReq, nReq, lvars>>

\* The goroutine RequestMemberList starts; the send fails or not.
SendTask(n, fail) ==
    /\ ~crashed
    /\ n \in 1..Len(tasks)
    /\ tasks' = SubSeq(tasks, 1, n - 1) \o SubSeq(tasks, n + 1, Len(tasks))
    /\ LET t == tasks[n]
       IN  IF subChannels[t.channel] # <<>> /\ chunkEq(subChannels[t.channel], t.chunks)
           THEN UNCHANGED <<subChannels, lastSent, nSent, subErrs>>
           ELSE /\ subChannels' = [id \in Channels |->
                                      IF id = t.channel THEN t.chunks
                                      ELSE IF subChannels[id] # <<>> THEN firstChunk
                                      ELSE <<>>]
                /\ lastSent' = subChannels'
                /\ nSent' = nSent + 1
                /\ subErrs' = IF fail THEN subErrs + 1 ELSE subErrs
    /\ UNCHANGED <<minFetched, ret, lastReq, nReq, lvars>>

\* A window of the form [i*100, i*100+99].
IsWindow(w) == w[1] >= 0 /\ w[1] % 100 = 0 /\ w[2] = w[1] + 99

\* C9: RequestMemberList never fails, whatever the list's state, and
\* returns nothing or at most MaxMemberChunk+1 windows starting with [0,99].
C9_RequestNeverFails ==
    /\ ~lastReq.failed
    /\ ret # <<>> =>
          /\ ret[1] = <<0, 99>>
          /\ Len(ret) <= MaxMemberChunk + 1
          /\ \A j \in 1..Len(ret) : IsWindow(ret[j])

\* C10: a window set returned for chunk k > 0, with the total unknown or
\* with k*100 < TotalVisible, holds [k*100, k*100+99] as its largest window.
C10_RequestedChunkPresent ==
    (/\ nReq > 0
     /\ ret # <<>>
     /\ lastReq.chunk > 0
     /\ (~lastReq.known \/ lastReq.chunk * 100 < lastReq.visible)) =>
        /\ \E j \in 1..Len(ret) : ret[j] = <<lastReq.chunk * 100, lastReq.chunk * 100 + 99>>
        /\ \A j \in 1..Len(ret) : ret[j][2] <= lastReq.chunk * 100 + 99

\* C32: a guild-subscribe send that fails calls OnError and rolls back what
\* the request recorded for its channel: the channel's windows are as they
\* were before the send, and the chunk recorded by the request whose send
\* it was is no longer recorded, so the same request sends again.
C32_FailedSubscribeRollsBack ==
    [][subErrs' = subErrs + 1 =>
          \E n \in 1..Len(tasks) :
             /\ tasks' = SubSeq(tasks, 1, n - 1) \o SubSeq(tasks, n + 1, Len(tasks))
             /\ subChannels'[tasks[n].channel] = subChannels[tasks[n].channel]
             /\ (Len(tasks) = 1 /\ lastReq.channel = tasks[n].channel) =>
                   minFetched'[lastReq.channel] # lastReq.chunk]_vars

\* C39: after a request for one channel and then a request for a sibling,
\* both with a send goroutine, once both goroutines have ended the guild's
\* recorded windows and the last command sent give the second channel the
\* windows its request returned and the first channel [0,99] alone.
C39_LastRequestWins ==
    (/\ nReq = 2
     /\ ~crashed
     /\ tasks = <<>>
     /\ ret # <<>>
     /\ \E a \in Channels \ {lastReq.channel} : minFetched[a] # NoChunk) =>
        \A a \in Channels \ {lastReq.channel} :
            /\ subChannels[lastReq.channel] = ret
            /\ subChannels[a] = firstChunk
            /\ lastSent = subChannels

\* C40: with no list stored (so no request was capped by a total), no
\* send goroutine waiting and no send failed, a channel whose recorded
\* chunk is k > 0 has the window [k*100, k*100+99] among its recorded
\* windows.
C40_CurrentChunkSubscribed ==
    (~ml.stored /\ ~crashed /\ tasks = <<>> /\ subErrs = 0) =>
        \A c \in Channels : minFetched[c] > 0 =>
            \E j \in 1..Len(subChannels[c]) :
                subChannels[c][j] = <<minFetched[c] * 100, minFetched[c] * 100 + 99>>

\* C27: an applied DELETE forwards the item that was at the op's index
\* before the removal, wherever the op stands in the event, and the slots
\* after it move left by one.
C27_DeleteForwardsRemoved ==
    (nOps > 0 /\ ~crashed /\ fwd.op = "DELETE" /\ fwd.index < Len(before)) =>
        /\ fwd.item = before[fwd.index + 1]
        /\ evOpen =>
              Items(ml) = SubSeq(before, 1, fwd.index) \o SubSeq(before, fwd.index + 2, Len(before))

\* C28: after an INVALIDATE the slots of the op's range s..e that exist
\* are nil, the others are unchanged, and the op forwarded carries what
\* the slots made nil held.
C28_InvalidateNulls ==
    (nOps > 0 /\ ~crashed /\ evOpen /\ fwd.op = "INVALIDATE") =>
        LET s == fwd.range[1]
            e == fwd.range[2]
            top == IF e + 1 < Len(before) THEN e + 1 ELSE Len(before)
        IN  /\ Len(Items(ml)) = Len(before)
            /\ \A i \in 1..Len(before) :
                  Items(ml)[i] = IF i > s /\ i <= e + 1 THEN Zero ELSE before[i]
            /\ fwd.items = SubSeq(before, s + 1, top)

\* C29: RequestMemberList for the chunk already recorded for the channel
\* returns nothing, records nothing and starts no send.
C29_SameChunkNoResend ==
    [][(nReq' = nReq + 1 /\ minFetched[lastReq'.channel] = lastReq'.chunk) =>
          (ret' = <<>> /\ tasks' = tasks /\ minFetched' = minFetched /\ ~crashed')]_vars

C29_Witness ==
    /\ nReq = 2
    /\ ~ml.stored
    /\ ret = <<>>
    /\ lastReq.chunk >= 1
    /\ minFetched[lastReq.channel] = lastReq.chunk
    /\ Len(tasks) = 1
    /\ tasks[1].channel = lastReq.channel
    /\ tasks[1].chunks[Len(tasks[1].chunks)] = <<lastReq.chunk * 100, lastReq.chunk * 100 + 99>>

\* Every recorded channel's windows start with [0,99], hold at most
\* MaxMemberChunk more, and at most one channel has more than [0,99].
WindowsCollapsed(sub) ==
    /\ \A c \in Channels : sub[c] # <<>> =>
          /\ sub[c][1] = <<0, 99>>
          /\ Len(sub[c]) <= MaxMemberChunk + 1
    /\ Cardinality({c \in Channels : Len(sub[c]) > 1}) <= 1

\* C30: the subscription state and every command sent satisfy that, and in
\* a command every channel but the one it is issued for has exactly [0,99].
C30_SiblingsCollapsed ==
    /\ [](WindowsCollapsed(subChannels) /\ WindowsCollapsed(lastSent))
    /\ [][nSent' = nSent + 1 =>
             \E n \in 1..Len(tasks) :
                /\ lastSent'[tasks[n].channel] = tasks[n].chunks
                /\ \A c \in Channels \ {tasks[n].channel} :
                      lastSent'[c] \in {<<>>, firstChunk}]_vars

C30_Witness ==
    /\ nSent = 2
    /\ ~ml.stored
    /\ Len(lastSent["c1"]) > 1
    /\ lastSent["c2"] = firstChunk


\* ------------------------------------------------------- RequestMember

Users == {"u1", "u2"}

MInit ==
    /\ store = {}
    /\ reqing = {}
    /\ calls = [u \in Users |-> 0]
    /\ mtasks = [u \in Users |-> 0]
    /\ cmds = <<>>
    /\ memErrs = 0
    /\ chunked = {}
    /\ nCalls = 0

\* RequestMember up to guild.mut.Lock(): the member store is asked first.
RequestMemberCheck(memberID) ==
    /\ nCalls < MaxCalls
    /\ nCalls' = nCalls + 1
    /\ calls' = IF memberID \in store THEN calls
                ELSE [calls EXCEPT ![memberID] = @ + 1]
    /\ UNCHANGED <<store, reqing, mtasks, cmds, memErrs, chunked>>

\* The locked part with the check of guild.reqing left out.
RequestMemberNoCheck(memberID) ==
    /\ calls[memberID] > 0
    /\ calls' = [calls EXCEPT ![memberID] = @ - 1]
    /\ reqing' = reqing \cup {memberID}
    /\ mtasks' = [mtasks EXCEPT ![memberID] = @ + 1]
    /\ UNCHANGED <<store, cmds, memErrs, chunked, nCalls>>

\* RequestMember under guild.mut: return if the user is being requested,
\* else mark the user and start the send goroutine.
RequestMemberLocked(memberID) ==
    /\ calls[memberID] > 0
    /\ calls' = [calls EXCEPT ![memberID] = @ - 1]
    /\ IF memberID \in reqing
       THEN UNCHANGED <<reqing, mtasks>>
       ELSE /\ reqing' = reqing \cup {memberID}
            /\ mtasks' = [mtasks EXCEPT ![memberID] = @ + 1]
    /\ UNCHANGED <<store, cmds, memErrs, chunked, nCalls>>

\* The goroutine with a failed send that leaves guild.reqing as it is.
RequestMemberSendKeep(memberID, fail) ==
    /\ mtasks[memberID] > 0
    /\ mtasks' = [mtasks EXCEPT ![memberID] = @ - 1]
    /\ IF fail
       THEN /\ memErrs' = memErrs + 1
            /\ UNCHANGED <<reqing, cmds>>
       ELSE /\ cmds' = Append(cmds, {memberID})
            /\ UNCHANGED <<reqing, memErrs>>
    /\ UNCHANGED <<store, calls, chunked, nCalls>>

\* The goroutine: one RequestGuildMembers command for the one user; a
\* failed send takes the user out of guild.reqing and calls OnError.
RequestMemberSend(memberID, fail) ==
    /\ mtasks[memberID] > 0
    /\ mtasks' = [mtasks EXCEPT ![memberID] = @ - 1]
    /\ IF fail
       THEN /\ reqing' = reqing \ {memberID}
            /\ memErrs' = memErrs + 1
            /\ UNCHANGED cmds
       ELSE /\ cmds' = Append(cmds, {memberID})
            /\ UNCHANGED <<reqing, memErrs>>
    /\ UNCHANGED <<store, calls, chunked, nCalls>>

\* onMembers: every member of the chunk leaves guild.reqing and is stored.
onMembers(members) ==
    /\ reqing' = reqing \ members
    /\ store' = store \cup members
    /\ chunked' = chunked \cup members
    /\ UNCHANGED <<calls, mtasks, cmds, memErrs, nCalls>>

\* No RequestMember call is between its steps and no send is waiting.
MemberQuiet == \A u \in Users : calls[u] = 0 /\ mtasks[u] = 0

\* The commands sent that carry user u.
CmdsWith(u) == {i \in 1..Len(cmds) : u \in cmds[i]}

\* C11: the users requested for a guild in one burst of RequestMember
\* calls (no chunk has arrived, no send failed) go out in one command
\* that carries all of them.
C11_OneCommandPerBurst ==
    (MemberQuiet /\ chunked = {} /\ memErrs = 0 /\ reqing # {}) =>
        /\ Len(cmds) = 1
        /\ cmds[1] = reqing

\* C12: while no chunk with u has arrived and no send has failed, at most
\* one command with u is sent or about to be sent; a call made while u is
\* stored ends at the store check; and while u is being requested no step
\* starts a send or sends a command for u.
C12_AtMostOneRequest ==
    /\ [](\A u \in Users : (u \notin chunked /\ memErrs = 0) =>
             Cardinality(CmdsWith(u)) + mtasks[u] <= 1)
    /\ [][\A u \in Users :
             /\ (u \in store /\ calls[u] = 0 /\ mtasks[u] = 0) =>
                   (calls'[u] = 0 /\ mtasks'[u] = 0 /\ CmdsWith(u)' = CmdsWith(u))
             /\ (u \in reqing /\ mtasks[u] = 0) =>
                   (mtasks'[u] = 0 /\ CmdsWith(u)' = CmdsWith(u))]_vars

C12_Witness ==
    /\ nCalls >= 3
    /\ MemberQuiet
    /\ chunked = {}
    /\ memErrs = 0
    /\ Cardinality(CmdsWith("u1")) = 1
    /\ Len(cmds) = 1

\* C31: a send goroutine that ends without a command has called OnError
\* and taken its user out of guild.reqing; the locked part of a call for a
\* user that is not in guild.reqing starts a new send; and a user leaves
\* guild.reqing only by such a failure or by a chunk that stores the user.
C31_FailedSendRollsBack ==
    [][\A u \in Users :
          /\ (mtasks'[u] < mtasks[u] /\ cmds' = cmds) =>
                (memErrs' = memErrs + 1 /\ u \notin reqing')
          /\ (calls'[u] < calls[u] /\ u \notin reqing) =>
                (u \in reqing' /\ mtasks'[u] = mtasks[u] + 1)
          /\ (u \in reqing /\ u \notin reqing') =>
                \/ (mtasks'[u] < mtasks[u] /\ memErrs' = memErrs + 1)
                \/ (u \in store' /\ u \in chunked' /\ mtasks' = mtasks
                      /\ memErrs' = memErrs)]_vars

\* One send failed and, with no chunk processed, both users have a command
\* sent: the user whose send failed was requested again.
C31_Witness ==
    /\ nCalls = 3
    /\ memErrs = 1
    /\ chunked = {}
    /\ MemberQuiet
    /\ \A u \in Users : CmdsWith(u) # {}

\* ----------------------------------------------------------- read state

RdChannels == {"r1"}
MsgIDs == 1..MaxMsg

\* The zero discord.UserID, the current user and another user.
NoUser == "nobody"
Me == "me"
Them == "them"

\* The zero gateway.ReadState: no valid LastMessageID, no mentions.
NoReadState == [last |-> 0, mentions |-> 0]
NoTask == [kind |-> "none", ch |-> "r1", rs |-> NoReadState, unread |-> FALSE]

RdInit ==
    /\ selfID = NoUser
    /\ states = [c \in RdChannels |-> NoReadState]
    /\ known = {}
    /\ msgs = [c \in RdChannels |-> [m \in MsgIDs |-> NoUser]]
    /\ rtasks = <<>>
    /\ updates = <<>>
    /\ nAcks = 0
    /\ nRd = 0
    /\ lastOp = [op |-> "none", ch |-> "r1", msg |-> 0, author |-> NoUser, n |-> 0,
                 pre |-> NoReadState, known |-> FALSE, dup |-> FALSE,
                 ev |-> NoTask, acked |-> 0]
    /\ lastMark = [c \in RdChannels |-> 0]

\* What an operation leaves behind for the properties below.
Note(op, c, m, author, n) ==
    /\ nRd < MaxReadOps
    /\ nRd' = nRd + 1
    /\ lastOp' = [op |-> op, ch |-> c, msg |-> m, author |-> author, n |-> n,
                  pre |-> states[c], known |-> c \in known, dup |-> lastMark[c] = m,
                  ev |-> IF Len(rtasks') > Len(rtasks) THEN rtasks'[Len(rtasks')] ELSE NoTask,
                  acked |-> nAcks' - nAcks]

\* markRead without the test for an already read message.
markReadNoDup(chID, msgID, sendack) ==
    /\ states' = [states EXCEPT ![chID] = [last |-> msgID, mentions |-> 0]]
    /\ rtasks' = Append(rtasks, [kind |-> "read", ch |-> chID,
                                 rs |-> states'[chID], unread |-> FALSE])
    /\ UNCHANGED nAcks

\* markRead that leaves the mention count alone.
markReadKeepMentions(chID, msgID, sendack) ==
    IF states[chID].last = msgID
    THEN UNCHANGED <<states, rtasks, nAcks>>
    ELSE /\ states' = [states EXCEPT ![chID].last = msgID]
         /\ rtasks' = Append(rtasks, [kind |-> "read", ch |-> chID,
                                      rs |-> states'[chID], unread |-> FALSE])
         /\ UNCHANGED nAcks

\* markRead that returns for every message at or below the read one.
markReadForward(chID, msgID, sendack) ==
    IF states[chID].last >= msgID
    THEN UNCHANGED <<states, rtasks, nAcks>>
    ELSE /\ states' = [states EXCEPT ![chID] = [last |-> msgID, mentions |-> 0]]
         /\ IF sendack /\ msgs[chID][msgID] = NoUser
            THEN UNCHANGED <<rtasks, nAcks>>
            ELSE /\ nAcks' = IF sendack /\ msgs[chID][msgID] # selfID
                             THEN nAcks + 1 ELSE nAcks
                 /\ rtasks' = Append(rtasks, [kind |-> "read", ch |-> chID,
                                              rs |-> states'[chID], unread |-> FALSE])

\* markRead that acks whoever the author is and whoever asked.
markReadAckAll(chID, msgID, sendack) ==
    IF states[chID].last = msgID /\ states[chID].mentions = 0
    THEN UNCHANGED <<states, rtasks, nAcks>>
    ELSE /\ states' = [states EXCEPT ![chID] = [last |-> msgID, mentions |-> 0]]
         /\ IF msgs[chID][msgID] = NoUser
            THEN UNCHANGED <<rtasks, nAcks>>
            ELSE /\ nAcks' = nAcks + 1
                 /\ rtasks' = Append(rtasks, [kind |-> "read", ch |-> chID,
                                              rs |-> states'[chID], unread |-> FALSE])

markRead(chID, msgID, sendack) ==
    IF states[chID].last = msgID /\ states[chID].mentions = 0
    THEN UNCHANGED <<states, rtasks, nAcks>>
    ELSE /\ states' = [states EXCEPT ![chID] = [last |-> msgID, mentions |-> 0]]
         /\ IF sendack /\ msgs[chID][msgID] = NoUser
            THEN UNCHANGED <<rtasks, nAcks>>
            ELSE /\ nAcks' = IF sendack /\ msgs[chID][msgID] # selfID
                             THEN nAcks + 1 ELSE nAcks
                 /\ rtasks' = Append(rtasks, [kind |-> "read", ch |-> chID,
                                              rs |-> states'[chID], unread |-> FALSE])

\* MarkUnread that sets the mention count instead of adding to it.
MarkUnreadSet(chID, msgID, mentions) ==
    /\ states' = [states EXCEPT ![chID].mentions = mentions]
    /\ rtasks' = Append(rtasks, [kind |-> "unread", ch |-> chID, rs |-> states'[chID],
                                 unread |-> states'[chID].last < msgID])
    /\ UNCHANGED nAcks

MarkUnread(chID, msgID, mentions) ==
    LET rs == [states[chID] EXCEPT !.mentions = @ + mentions]
        own == msgs[chID][msgID] # NoUser /\ msgs[chID][msgID] = selfID
        rs2 == IF own THEN [last |-> msgID, mentions |-> 0] ELSE rs
    IN  /\ UNCHANGED nAcks
        /\ IF chID \notin known
           THEN states' = [states EXCEPT ![chID] = rs] /\ UNCHANGED rtasks
           ELSE /\ states' = [states EXCEPT ![chID] = rs2]
                /\ rtasks' = Append(rtasks, [kind |-> "unread", ch |-> chID, rs |-> rs2,
                                             unread |-> rs2.last < msgID])

\* The Mentions of a message, and the counts MarkUnread is called with.
MentionLists == {<<>>, <<Me>>, <<Them>>, <<Me, Them>>, <<Them, Me, Me>>}
MentionCounts == {0, 1, 2}

RECURSIVE CountSelf(_, _)
\* for _, u := range c.Mentions { if u.ID == selfID { mentions++ } }
CountSelf(mentions, self) ==
    IF mentions = <<>> THEN 0
    ELSE (IF Head(mentions) = self THEN 1 ELSE 0) + CountSelf(Tail(mentions), self)

\* The Ready handler: selfID and the read states the event carries.
RdReady(chans, rs) ==
    /\ selfID' = Me
    /\ states' = [c \in RdChannels |-> IF c \in chans THEN rs ELSE states[c]]
    /\ lastMark' = [c \in RdChannels |-> IF c \in chans THEN 0 ELSE lastMark[c]]
    /\ UNCHANGED <<known, msgs, rtasks, updates, nAcks>>
    /\ Note("Ready", "r1", 0, NoUser, 0)

\* The MessageAck handler.
RdMessageAck(c, m) ==
    /\ selfID # NoUser
    /\ markRead(c, m, FALSE)
    /\ lastMark' = [lastMark EXCEPT ![c] = m]
    /\ UNCHANGED <<selfID, known, msgs, updates>>
    /\ Note("MessageAck", c, m, NoUser, 0)

\* The MessageCreate handler; the cabinet holds the message from then on.
RdMessageCreate(c, m, author, mentions) ==
    /\ selfID # NoUser
    /\ msgs[c][m] \in {NoUser, author}
    /\ msgs' = [msgs EXCEPT ![c][m] = author]
    /\ IF author = selfID
       THEN markRead(c, m, FALSE)
       ELSE MarkUnread(c, m, CountSelf(mentions, selfID))
    /\ lastMark' = [lastMark EXCEPT ![c] = IF author = selfID THEN m
                                           ELSE IF CountSelf(mentions, Me) > 0 THEN 0
                                           ELSE @]
    /\ UNCHANGED <<selfID, known, updates>>
    /\ Note("MessageCreate", c, m, author, CountSelf(mentions, Me))

\* MarkRead that waits until the dispatches started before it have run.
RdMarkReadWaits(c, m) ==
    /\ rtasks = <<>>
    /\ markRead(c, m, TRUE)
    /\ lastMark' = [lastMark EXCEPT ![c] = m]
    /\ UNCHANGED <<selfID, known, msgs, updates>>
    /\ Note("MarkRead", c, m, NoUser, 0)

\* State.MarkRead, called by the application.
RdMarkRead(c, m) ==
    /\ markRead(c, m, TRUE)
    /\ lastMark' = [lastMark EXCEPT ![c] = m]
    /\ UNCHANGED <<selfID, known, msgs, updates>>
    /\ Note("MarkRead", c, m, NoUser, 0)

\* State.MarkUnread, called by the application.
RdMarkUnread(c, m, n) ==
    /\ MarkUnread(c, m, n)
    /\ lastMark' = [lastMark EXCEPT ![c] = 0]
    /\ UNCHANGED <<selfID, known, msgs, updates>>
    /\ Note("MarkUnread", c, m, NoUser, n)

\* The cabinet learns of a channel.
RdChannelSet(c) ==
    /\ c \notin known
    /\ known' = known \cup {c}
    /\ UNCHANGED <<selfID, states, msgs, rtasks, updates, nAcks, nRd, lastOp, lastMark>>

\* A goroutine that reads the channel's read state when it runs instead
\* of carrying the copy made for it.
RdRunTaskLive(i) ==
    /\ i \in 1..Len(rtasks)
    /\ rtasks' = SubSeq(rtasks, 1, i - 1) \o SubSeq(rtasks, i + 1, Len(rtasks))
    /\ updates' = IF rtasks[i].kind = "read" /\ rtasks[i].ch \notin known
                  THEN updates
                  ELSE Append(updates, [rtasks[i] EXCEPT !.rs = states[rtasks[i].ch]])
    /\ UNCHANGED <<selfID, states, known, msgs, nAcks, nRd, lastOp, lastMark>>

\* One of the goroutines runs: markRead's looks the channel up first.
RdRunTask(i) ==
    /\ i \in 1..Len(rtasks)
    /\ rtasks' = SubSeq(rtasks, 1, i - 1) \o SubSeq(rtasks, i + 1, Len(rtasks))
    /\ updates' = IF rtasks[i].kind = "read" /\ rtasks[i].ch \notin known
                  THEN updates ELSE Append(updates, rtasks[i])
    /\ UNCHANGED <<selfID, states, known, msgs, nAcks, nRd, lastOp, lastMark>>

\* C13: a MessageAck(c, m) or MarkRead(c, m) that comes when m is the
\* message last marked read in c and no mention has arrived since changes
\* nothing: no UpdateEvent goroutine, no ack RPC, the read state as it was.
C13_DuplicateAckSuppressed ==
    (lastOp.op \in {"MessageAck", "MarkRead"} /\ lastOp.dup) =>
        /\ lastOp.ev = NoTask
        /\ lastOp.acked = 0
        /\ states[lastOp.ch] = lastOp.pre

C13_Witness ==
    /\ lastOp.op = "MessageAck"
    /\ lastOp.dup
    /\ lastOp.msg = MaxMsg
    /\ lastOp.pre = [last |-> MaxMsg, mentions |-> 0]
    /\ nRd >= 3

\* C14: after a MessageCreate from the current user in c the read state
\* of c is that message with no mentions, and no ack RPC was started.
C14_OwnMessageRead ==
    (lastOp.op = "MessageCreate" /\ lastOp.author = Me) =>
        /\ states[lastOp.ch] = [last |-> lastOp.msg, mentions |-> 0]
        /\ lastOp.acked = 0

C14_Witness ==
    /\ lastOp.op = "MessageCreate"
    /\ lastOp.author = Me
    /\ lastOp.pre.mentions > 0
    /\ lastOp.pre.last # lastOp.msg

\* The last operation was a MessageCreate from another author.
OtherMessage == lastOp.op = "MessageCreate" /\ lastOp.author = Them

\* The one UpdateEvent of C15, with Unread as the claim has it.
OneUpdate ==
    /\ lastOp.ev.kind = "unread"
    /\ lastOp.ev.rs = states[lastOp.ch]
    /\ lastOp.ev.unread = (lastOp.msg > lastOp.pre.last)

\* C15 as stated: n mentions of the current user add n to the mention
\* count and one UpdateEvent is dispatched.
C15_MentionsCounted ==
    OtherMessage =>
        /\ states[lastOp.ch].mentions = lastOp.pre.mentions + lastOp.n
        /\ OneUpdate

\* C15 amended: the count grows by n in any case; the one UpdateEvent is
\* dispatched when the cabinet holds the channel, none when it does not.
C15_MentionsCountedKnownChannel ==
    OtherMessage =>
        /\ states[lastOp.ch].mentions = lastOp.pre.mentions + lastOp.n
        /\ states[lastOp.ch].last = lastOp.pre.last
        /\ (lastOp.known => OneUpdate)
        /\ (~lastOp.known => lastOp.ev = NoTask)

C15_Witness ==
    /\ OtherMessage
    /\ lastOp.known
    /\ lastOp.n = 2

\* The last operation was a MarkRead or MessageAck that markRead did not
\* suppress as a duplicate.
MarkedRead ==
    /\ lastOp.op \in {"MarkRead", "MessageAck"}
    /\ ~(lastOp.pre.last = lastOp.msg /\ lastOp.pre.mentions = 0)

C37_LastSeenMonotone ==
    lastOp.op \in {"MarkRead", "MessageAck", "MessageCreate", "MarkUnread"} =>
        /\ states[lastOp.ch].last >= lastOp.pre.last
        /\ (lastOp.op \in {"MarkRead", "MessageAck"} /\ lastOp.msg < lastOp.pre.last) =>
              states[lastOp.ch] = lastOp.pre

\* C37 amended: LastMessageID is lowered only by marking a message below
\* it: MarkRead and MessageAck leave the read state at the marked message
\* with no mentions, older or not, and a MessageCreate or MarkUnread that
\* changes LastMessageID is for a message of the current user and does the
\* same.
C37_LastSeenFollowsMark ==
    /\ lastOp.op \in {"MarkRead", "MessageAck"} =>
          states[lastOp.ch] = [last |-> lastOp.msg, mentions |-> 0]
    /\ (/\ lastOp.op \in {"MessageCreate", "MarkUnread"}
        /\ states[lastOp.ch].last # lastOp.pre.last) =>
          /\ states[lastOp.ch] = [last |-> lastOp.msg, mentions |-> 0]
          /\ msgs[lastOp.ch][lastOp.msg] = selfID

\* A message below the read one was marked read while mentions were
\* counted.
C37_Witness ==
    /\ lastOp.op = "MarkRead"
    /\ lastOp.msg < lastOp.pre.last
    /\ lastOp.pre.mentions > 0
    /\ states[lastOp.ch] = [last |-> lastOp.msg, mentions |-> 0]

\* The last operation started an UpdateEvent for a channel the cabinet
\* holds, and every goroutine has run.
LastEventOut ==
    /\ rtasks = <<>>
    /\ lastOp.ev # NoTask
    /\ lastOp.known

\* C38 as stated: UpdateEvents are dispatched in the order of their
\* mutations, so once every goroutine has run the last UpdateEvent
\* dispatched is the one of the last mutation.
C38_UpdatesInOrder ==
    LastEventOut =>
        /\ updates # <<>>
        /\ updates[Len(updates)] = lastOp.ev

\* A step that starts a goroutine gives it the read state the step left;
\* a step that dispatches an event dispatches what one goroutine carries.
SnapshotStep ==
    /\ (Len(rtasks') > Len(rtasks)) =>
          /\ rtasks' = Append(rtasks, lastOp'.ev)
          /\ lastOp'.ev.rs = states'[lastOp'.ch]
    /\ (updates' # updates) =>
          \E i \in 1..Len(rtasks) :
             /\ updates' = Append(updates, rtasks[i])
             /\ rtasks' = SubSeq(rtasks, 1, i - 1) \o SubSeq(rtasks, i + 1, Len(rtasks))

\* C38 amended: every goroutine carries the read state and unread flag
\* its mutation left and dispatches them unchanged, one event for one
\* goroutine, in whatever order the goroutines run; once all have run the
\* event of the last mutation is among those dispatched.
C38_UpdatesCarrySnapshots ==
    /\ [](LastEventOut => \E j \in 1..Len(updates) : updates[j] = lastOp.ev)
    /\ [][SnapshotStep]_vars

\* Two events were dispatched, the one of the last mutation first: the
\* last event dispatched carries a read state the channel no longer has.
C38_Witness ==
    /\ LastEventOut
    /\ Len(updates) = 2
    /\ updates[1] = lastOp.ev
    /\ updates[1].rs = states[lastOp.ch]
    /\ updates[2].rs # states[lastOp.ch]

FlagMentions == "MENTIONS"
FlagNotifies == "NOTIFIES"

\* gateway.UserNotification.
Levels == {"all", "mentions", "none", "inherit"}

\* A nil MuteConfig: the mute does not end.
NoConfig == -1
EndTimes == {NoConfig} \cup (0..MaxTime)

Settings == [muted : BOOLEAN, suppress : BOOLEAN, notifications : Levels, endTime : EndTimes]
Overrides == [muted : BOOLEAN, notifications : Levels, endTime : EndTimes]
\* No entry in the map.
NoSetting == [stored |-> FALSE]
NoOverride == [stored |-> FALSE]

\* No call made yet.
NoVerdict == {"none"}
NoAnswer == [everyone |-> FALSE, result |-> FALSE, made |-> FALSE]

\* What the cabinet can hold: the current user or not, the guild's default
\* notification level ("unknown": no such guild), the channel's type
\* ("unknown": no such channel).
Cabinets == [me : BOOLEAN, guildLevel : {"unknown", "all", "mentions"},
             chType : {"unknown", "text", "dm", "group"}]

Messages == [author : {Me, Them, "blocked"}, guildValid : BOOLEAN,
             everyone : BOOLEAN, mentions : MentionLists]

muteConfigInvalid(endTime, t) == endTime # NoConfig /\ endTime < t

GuildSettings(guilds, c) ==
    IF guilds # NoSetting THEN guilds
    ELSE [muted |-> FALSE, suppress |-> FALSE, endTime |-> NoConfig,
          notifications |-> IF c.guildLevel = "mentions" THEN "mentions" ELSE "all"]

ChannelOverrides(channels, guilds, c) ==
    IF channels # NoOverride THEN channels
    ELSE [muted |-> FALSE, endTime |-> NoConfig,
          notifications |-> IF c.chType # "unknown"
                            THEN GuildSettings(guilds, c).notifications ELSE "inherit"]

messageMentions(msg, uID) == \E i \in 1..Len(msg.mentions) : msg.mentions[i] = uID

\* MessageMentions with the mute test ahead of the test for @everyone.
MessageMentionsMuteFirst(msg, guilds, channels, c) ==
    LET mutedGuild == GuildSettings(guilds, c)
        flags == IF messageMentions(msg, Me) THEN {FlagMentions} ELSE {}
        notify == IF flags # {} THEN flags \cup {FlagNotifies} ELSE flags
        mutedCh == ChannelOverrides(channels, guilds, c)
        fromGuild ==
            IF msg.guildValid /\ mutedGuild.notifications = "none" THEN {}
            ELSE IF msg.guildValid /\ mutedGuild.notifications = "all"
            THEN (IF ~mutedGuild.muted THEN flags \cup {FlagNotifies} ELSE flags)
            ELSE IF msg.guildValid /\ mutedGuild.notifications = "mentions" THEN notify
            ELSE IF c.chType \in {"dm", "group"} THEN flags \cup {FlagNotifies}
            ELSE flags
    IN  IF ~c.me THEN {}
        ELSE IF msg.author = Me THEN {}
        ELSE IF msg.author = "blocked" THEN {}
        ELSE IF msg.guildValid /\ mutedGuild.muted THEN {}
        ELSE IF msg.guildValid /\ msg.everyone /\ ~mutedGuild.suppress
        THEN {FlagMentions, FlagNotifies}
        ELSE CASE mutedCh.notifications = "none" -> {}
               [] mutedCh.notifications = "all" /\ mutedCh.muted -> flags
               [] mutedCh.notifications = "mentions" -> notify
               [] OTHER -> fromGuild

MessageMentions(msg, guilds, channels, c) ==
    LET mutedGuild == GuildSettings(guilds, c)
        flags == IF messageMentions(msg, Me) THEN {FlagMentions} ELSE {}
        notify == IF flags # {} THEN flags \cup {FlagNotifies} ELSE flags
        mutedCh == ChannelOverrides(channels, guilds, c)
        fromGuild ==
            IF msg.guildValid /\ mutedGuild.notifications = "none" THEN {}
            ELSE IF msg.guildValid /\ mutedGuild.notifications = "all"
            THEN (IF ~mutedGuild.muted THEN flags \cup {FlagNotifies} ELSE flags)
            ELSE IF msg.guildValid /\ mutedGuild.notifications = "mentions" THEN notify
            ELSE IF c.chType \in {"dm", "group"} THEN flags \cup {FlagNotifies}
            ELSE flags
    IN  IF ~c.me THEN {}
        ELSE IF msg.author = Me THEN {}
        ELSE IF msg.author = "blocked" THEN {}
        ELSE IF msg.guildValid /\ msg.everyone /\ ~mutedGuild.suppress
        THEN {FlagMentions, FlagNotifies}
        ELSE IF msg.guildValid /\ mutedGuild.muted THEN {}
        ELSE CASE mutedCh.notifications = "none" -> {}
               [] mutedCh.notifications = "all" /\ mutedCh.muted -> flags
               [] mutedCh.notifications = "mentions" -> notify
               [] OTHER -> fromGuild

\* mute.State.Guild
Guild(guilds, everyone, t) ==
    IF guilds = NoSetting \/ muteConfigInvalid(guilds.endTime, t) THEN FALSE
    ELSE (~everyone /\ guilds.muted) \/ (everyone /\ guilds.suppress)

NoMessage == [author |-> Them, guildValid |-> FALSE, everyone |-> FALSE, mentions |-> <<>>]

MtInit ==
    /\ now = 0
    /\ mguilds = NoSetting
    /\ mchannels = NoOverride
    /\ cab = [me |-> FALSE, guildLevel |-> "unknown", chType |-> "unknown"]
    /\ msgIn = NoMessage
    /\ verdict = NoVerdict
    /\ asked = NoAnswer
    /\ mmaps = "nil"

\* The inputs of one MessageMentions call.
MtInputs ==
    /\ now \in 0..MaxTime
    /\ mguilds \in {NoSetting} \cup Settings
    /\ mchannels \in {NoOverride} \cup Overrides
    /\ cab \in {c \in Cabinets : c.me /\ (mguilds # NoSetting => c.guildLevel = "unknown")}
    /\ msgIn \in {m \in Messages : Len(m.mentions) <= 1}
    /\ verdict = NoVerdict
    /\ asked = NoAnswer
    /\ mmaps = "made"

MtEvaluate ==
    /\ verdict = NoVerdict
    /\ verdict' = MessageMentions(msgIn, mguilds, mchannels, cab)
    /\ UNCHANGED <<now, mguilds, mchannels, cab, msgIn, asked, mmaps>>

\* The Ready handler of mute.NewState: both maps are made anew and filled
\* from the event's settings.
MtReady(setting) ==
    /\ mmaps # "fault"
    /\ mmaps' = "made"
    /\ mguilds' = setting
    /\ mchannels' = NoOverride
    /\ UNCHANGED <<now, cab, msgIn, verdict, asked>>

\* The UserGuildSettingsUpdate handler: the guild's entry is overwritten.
\* Before Ready the map is nil and the assignment panics.
MtUpdate(setting) ==
    /\ mmaps # "fault"
    /\ IF mmaps = "nil"
          THEN mmaps' = "fault" /\ UNCHANGED mguilds
          ELSE mguilds' = setting /\ UNCHANGED mmaps
    /\ UNCHANGED <<now, mchannels, cab, msgIn, verdict, asked>>

\* time.Now() moves on.
MtTick ==
    /\ mmaps # "fault"
    /\ now < MaxTime
    /\ now' = now + 1
    /\ UNCHANGED <<mguilds, mchannels, cab, msgIn, verdict, asked, mmaps>>

\* A caller asks mute.State.Guild.
MtGuild(everyone) ==
    /\ mmaps # "fault"
    /\ asked' = [everyone |-> everyone, result |-> Guild(mguilds, everyone, now), made |-> TRUE]
    /\ UNCHANGED <<now, mguilds, mchannels, cab, msgIn, verdict, mmaps>>

\* ---------------------------------------------------------------------
\* Presence store (nstore/presence.go)
\* ---------------------------------------------------------------------

\* Guild IDs; 0 is the zero ID, for which IsValid is false.
PGuilds == {0, 1, 2}

\* A Go map as a function on its keys.
EmptyMap == [k \in {} |-> k]
MapSet(f, key, val) == [k \in DOMAIN f \cup {key} |-> IF k = key THEN val ELSE f[k]]
MapDel(f, key) == [k \in DOMAIN f \ {key} |-> f[k]]

NotFound == [found |-> FALSE]
NoCall == [n |-> 0, op |-> "none", guild |-> 0, user |-> "u1"]

\* The store once Reset has made the maps.
PInit ==
    /\ presences = EmptyMap
    /\ userGuilds = EmptyMap
    /\ plist = [u \in Users |-> <<>>]
    /\ plast = NoCall

\* PresenceStore.presence: the guild's record first, then the fallback.
presence(pr, ug, guild, user) ==
    IF guild # 0 /\ user \in DOMAIN ug /\ guild \in DOMAIN ug[user] THEN ug[user][guild]
    ELSE IF user \in DOMAIN pr THEN pr[user]
    ELSE NotFound

\* The list of the documentation: the guild's entry is taken out, and on a
\* set the new one is appended.
ListWithout(l, guild) == SelectSeq(l, LAMBDA x : x.guild # guild)

\* PresenceStore.PresenceSet; p.GuildID is pg, and id tells this presence
\* from every other one set.
PresenceSet(guild, user, pg) ==
    LET p == [guildID |-> pg, id |-> plast.n + 1] IN
    /\ plast.n < MaxPresOps
    /\ IF user \notin DOMAIN presences
          THEN /\ presences' = MapSet(presences, user, p)
               /\ UNCHANGED userGuilds
          ELSE IF user \in DOMAIN userGuilds
          THEN /\ userGuilds' = MapSet(userGuilds, user, MapSet(userGuilds[user], guild, p))
               /\ UNCHANGED presences
          ELSE /\ userGuilds' = MapSet(userGuilds, user, MapSet(EmptyMap, guild, p))
               /\ IF presences[user].guildID = guild
                     THEN presences' = MapSet(presences, user, p)
                     ELSE UNCHANGED presences
    /\ plist' = [plist EXCEPT ![user] = Append(ListWithout(@, guild), [guild |-> guild, p |-> p])]
    /\ plast' = [n |-> plast.n + 1, op |-> "set", guild |-> guild, user |-> user]

\* PresenceStore.PresenceRemove
PresenceRemove(guild, user) ==
    /\ plast.n < MaxPresOps
    /\ IF user \notin DOMAIN presences
          THEN UNCHANGED <<presences, userGuilds>>
          ELSE IF user \notin DOMAIN userGuilds
          THEN /\ presences' = MapDel(presences, user)
               /\ UNCHANGED userGuilds
          ELSE LET guilds == MapDel(userGuilds[user], guild) IN
               IF DOMAIN guilds = {}
                  THEN /\ presences' = MapDel(presences, user)
                       /\ userGuilds' = MapDel(userGuilds, user)
                  ELSE /\ userGuilds' = MapSet(userGuilds, user, guilds)
                       /\ UNCHANGED presences
    /\ plist' = [plist EXCEPT ![user] = ListWithout(@, guild)]
    /\ plast' = [n |-> plast.n + 1, op |-> "remove", guild |-> guild, user |-> user]

\* PresenceStore.Reset
PresenceReset ==
    /\ plast.n < MaxPresOps
    /\ presences' = EmptyMap
    /\ userGuilds' = EmptyMap
    /\ plist' = [u \in Users |-> <<>>]
    /\ plast' = [n |-> plast.n + 1, op |-> "reset", guild |-> 0, user |-> "u1"]

\* What a lookup in the list gives: the guild's entry if the guild is valid
\* and has one, else the last entry, else not found.
ListPresence(l, guild) ==
    IF guild # 0 /\ \E i \in 1..Len(l) : l[i].guild = guild
      THEN l[CHOOSE i \in 1..Len(l) : l[i].guild = guild].p
    ELSE IF l # <<>> THEN l[Len(l)].p
    ELSE NotFound

\* C19: after any PresenceSet and PresenceRemove calls, Presence(g, u) is
\* the presence last set for (g, u) if g is valid and u has an entry for g,
\* else the presence last set for u under any guild, and not found only
\* when u has no entry.
C19_PresenceMatchesList ==
    \A u \in Users : \A g \in PGuilds :
        presence(presences, userGuilds, g, u) = ListPresence(plist[u], g)

\* C20: PresenceRemove(g, u) takes out only u's entry for g: the entries
\* of other guilds are still returned, the removed presence is returned by
\* no lookup, and u is not found only once its last entry is gone.
C20_RemoveOnlyThatGuild ==
    [][(plast'.n # plast.n /\ plast'.op = "remove") =>
         LET u == plast'.user
             g == plast'.guild
             was == plist[u]
             after(guild) == presence(presences', userGuilds', guild, u)
         IN  /\ \A i \in 1..Len(was) :
                    IF was[i].guild = g
                      THEN \A h \in PGuilds : after(h) # was[i].p
                      ELSE was[i].guild # 0 => after(was[i].guild) = was[i].p
             /\ (after(0) = NotFound) <=> (plist'[u] = <<>>)]_vars

\* ---- the precedence table of the notification decision ----

\* The mentions bit, and the verdicts built on it.
TableMentions(msg) ==
    IF \E i \in 1..Len(msg.mentions) : msg.mentions[i] = Me THEN {FlagMentions} ELSE {}

\* The rows, top to bottom: the condition and the verdict of each. gs and co
\* are the guild's settings and the channel's override, muted meaning a mute
\* that has not ended.
TableRows(msg, gs, co, isDM) ==
    LET m == TableMentions(msg)
        ifMentioned == IF m # {} THEN m \cup {FlagNotifies} ELSE m
        g == msg.guildValid
    IN  << <<msg.author = Me, {}>>,
           <<msg.author = "blocked", {}>>,
           <<g /\ msg.everyone /\ ~gs.suppress, {FlagMentions, FlagNotifies}>>,
           <<g /\ gs.muted, {}>>,
           <<co.notifications = "none", {}>>,
           <<co.notifications = "all" /\ co.muted, m>>,
           <<co.notifications = "mentions", ifMentioned>>,
           <<g /\ gs.notifications = "none", {}>>,
           <<g /\ gs.notifications = "all", m \cup {FlagNotifies}>>,
           <<g /\ gs.notifications = "mentions", ifMentioned>>,
           <<isDM, m \cup {FlagNotifies}>>,
           <<TRUE, m>> >>

\* First match wins.
TableVerdict(msg, gs, co, isDM) ==
    LET rows == TableRows(msg, gs, co, isDM)
        first == CHOOSE i \in 1..Len(rows) :
                    rows[i][1] /\ \A j \in 1..(i - 1) : ~rows[j][1]
    IN  rows[first][2]

\* The settings and override a call sees, and whether a mute in them has ended.
SeenGuild == GuildSettings(mguilds, cab)
SeenChannel == ChannelOverrides(mchannels, mguilds, cab)
GuildMuteEnded == muteConfigInvalid(SeenGuild.endTime, now)
ChannelMuteEnded == muteConfigInvalid(SeenChannel.endTime, now)

\* C16: for every combination of author, guild validity, @everyone,
\* suppression, mutes, self mention, override level, guild level and
\* channel type (no mute that has ended), MessageMentions returns the
\* verdict of the first matching row of the table.
C16_VerdictMatchesTable ==
    (verdict # NoVerdict /\ ~GuildMuteEnded /\ ~ChannelMuteEnded) =>
        /\ verdict = TableVerdict(msgIn, SeenGuild, SeenChannel,
                                  cab.chType \in {"dm", "group"})
        /\ (msgIn.author = "blocked" => verdict = {})
        /\ (msgIn.author = Them /\ msgIn.guildValid /\ msgIn.everyone /\ SeenGuild.muted) =>
              verdict = IF SeenGuild.suppress THEN {} ELSE {FlagMentions, FlagNotifies}
        /\ (/\ msgIn.author = Them /\ ~msgIn.guildValid /\ cab.chType \in {"dm", "group"}
            /\ TableMentions(msgIn) = {} /\ SeenChannel.notifications = "inherit") =>
              verdict = {FlagNotifies}

C16_Witness ==
    /\ verdict = {FlagMentions, FlagNotifies}
    /\ msgIn.author = Them
    /\ msgIn.everyone
    /\ mguilds # NoSetting
    /\ SeenGuild.muted
    /\ ~GuildMuteEnded
    /\ SeenChannel.notifications = "none"

\* C17: a guild mute or a channel override mute whose endTime is in the
\* past counts as no mute: the verdict is the one for the same settings
\* with muted = false.
C17_ExpiredMuteIgnored ==
    (verdict # NoVerdict /\ msgIn.author = Them) =>
        /\ (mguilds # NoSetting /\ GuildMuteEnded) =>
              verdict = MessageMentions(msgIn, [mguilds EXCEPT !.muted = FALSE], mchannels, cab)
        /\ (mchannels # NoOverride /\ ChannelMuteEnded) =>
              verdict = MessageMentions(msgIn, mguilds, [mchannels EXCEPT !.muted = FALSE], cab)

\* C18: Guild(g, everyone) is (not everyone and muted, a mute that has
\* ended counting as not muted) or (everyone and suppressEveryone, whatever
\* the mute's end); false when no settings are stored for g.
C18_GuildQuery ==
    [][asked' # asked =>
         asked'.result =
            /\ mguilds # NoSetting
            /\ \/ ~asked'.everyone /\ mguilds.muted /\ ~muteConfigInvalid(mguilds.endTime, now)
               \/ asked'.everyone /\ mguilds.suppress]_vars

\* ---------------------------------------------------------------------
\* Conversation summaries (unnamed/part_012)
\* ---------------------------------------------------------------------

\* The limits, scaled down: 10 summaries in memory, 50 files, 30 minutes.
maxSummaries == 2
PersistenceMaxCount == 2
PersistenceMaxAge == 2

\* The summaries the gateway may send: summary ID (a snowflake) and EndID.
SummaryPool ==
    { [id |-> 1, endID |-> 1], [id |-> 2, endID |-> 3], [id |-> 3, endID |-> 2],
      [id |-> 4, endID |-> 3], [id |-> 3, endID |-> 1] }

\* What an update carries: one summary, or two by ascending ID.
SummaryBatches ==
    {<<a>> : a \in SummaryPool}
        \cup {<<pr[1], pr[2]>> : pr \in {x \in SummaryPool \X SummaryPool : x[1].id < x[2].id}}

\* Snowflake.Time: the ID without its low bits.
SnowTime(id) == id \div 2

NoClean == -1
NoRun == [ran |-> FALSE]

\* NewState: nothing in memory, no cleanup yet.
SumInit ==
    /\ summaries = <<>>
    /\ sfiles = {}
    /\ sdir = FALSE
    /\ lastClean = NoClean
    /\ clock = 0
    /\ ptasks = <<>>
    /\ loaded = FALSE
    /\ received = {}
    /\ shist = NoRun

\* The same with a directory an earlier run may have left, at some time.
SumInputs ==
    /\ summaries = <<>>
    /\ sfiles \in {{}, {[id |-> 1, endID |-> 1], [id |-> 2, endID |-> 3]}}
    /\ sdir = (sfiles # {})
    /\ lastClean = NoClean
    /\ clock \in 0..1
    /\ ptasks = <<>>
    /\ loaded = FALSE
    /\ received = {}
    /\ shist = NoRun

\* slices.BinarySearchFunc by EndID: the first position whose EndID is not
\* below the target.
SearchEnd(l, endID) ==
    IF \E i \in 1..Len(l) : l[i].endID >= endID
      THEN CHOOSE i \in 1..Len(l) :
              l[i].endID >= endID /\ \A j \in 1..(i - 1) : l[j].endID < endID
      ELSE Len(l) + 1

\* One round of the loop of insertSummaries.
InsertOne(l, summary) ==
    LET ix == SearchEnd(l, summary.endID) IN
    IF ix <= Len(l) /\ l[ix].endID = summary.endID
      THEN [l EXCEPT ![ix] = summary]
      ELSE SubSeq(l, 1, ix - 1) \o <<summary>> \o SubSeq(l, ix, Len(l))

RECURSIVE InsertEach(_, _)
InsertEach(l, more) ==
    IF more = <<>> THEN l ELSE InsertEach(InsertOne(l, Head(more)), Tail(more))

\* insertSummaries with the cut that keeps the whole list.
insertSummariesNoCut(l, more) == InsertEach(l, more)

\* insertSummaries
insertSummaries(l, more) ==
    LET all == InsertEach(l, more) IN
    IF Len(all) > maxSummaries
      THEN SubSeq(all, Len(all) - maxSummaries + 1, Len(all))
      ELSE all

\* The files of a directory by ascending ID, as slices.SortFunc leaves them.
RECURSIVE SortByID(_)
SortByID(fs) ==
    IF fs = {} THEN <<>>
    ELSE LET lo == CHOOSE f \in fs : \A g \in fs : f.id <= g.id
         IN  <<lo>> \o SortByID(fs \ {lo})

\* The cleanup loop keeping every young file, whatever the count.
RECURSIVE CleanLoopNoCount(_, _, _, _)
CleanLoopNoCount(files, i, kept, t) ==
    IF i = 0 THEN {}
    ELSE IF SnowTime(files[i].id) + PersistenceMaxAge > t
      THEN {files[i]} \cup CleanLoopNoCount(files, i - 1, kept + 1, t)
      ELSE CleanLoopNoCount(files, i - 1, kept, t)

\* The cleanup loop keeping the newest files, whatever their age.
RECURSIVE CleanLoopNoAge(_, _, _, _)
CleanLoopNoAge(files, i, kept, t) ==
    IF i = 0 THEN {}
    ELSE IF kept < PersistenceMaxCount
      THEN {files[i]} \cup CleanLoopNoAge(files, i - 1, kept + 1, t)
      ELSE CleanLoopNoAge(files, i - 1, kept, t)

\* The cleanup loop, from the last file to the first: the files it keeps.
RECURSIVE CleanLoop(_, _, _, _)
CleanLoop(files, i, kept, t) ==
    IF i = 0 THEN {}
    ELSE IF kept < PersistenceMaxCount /\ SnowTime(files[i].id) + PersistenceMaxAge > t
      THEN {files[i]} \cup CleanLoop(files, i - 1, kept + 1, t)
      ELSE CleanLoop(files, i - 1, kept, t)

\* shouldClean
shouldClean(t) == ~(lastClean # NoClean /\ t - lastClean < PersistenceMaxAge)

\* Writing the files of an update: a file of the same ID is replaced.
RECURSIVE WriteFiles(_, _)
WriteFiles(fs, more) ==
    IF more = <<>> THEN fs
    ELSE WriteFiles({f \in fs : f.id # Head(more).id} \cup {Head(more)}, Tail(more))

\* A ConversationSummaryUpdate arrives: the synchronous handler merges it
\* and the persistence handler is started.
SumEvent(more) ==
    /\ Len(ptasks) + (IF shist = NoRun THEN 0 ELSE shist.n) < MaxSumEvents
    /\ summaries' = insertSummaries(summaries, more)
    /\ received' = received \cup {more[i] : i \in 1..Len(more)}
    /\ ptasks' = Append(ptasks, more)
    /\ UNCHANGED <<sfiles, sdir, lastClean, clock, loaded, shist>>

\* The persistence handler of one update, start to end.
SumPersist(i) ==
    LET more == ptasks[i]
        written == WriteFiles(sfiles, more)
        clean == shouldClean(clock)
        files == SortByID(written)
        keep == CleanLoop(files, Len(files), 0, clock)
    IN  /\ ptasks' = SubSeq(ptasks, 1, i - 1) \o SubSeq(ptasks, i + 1, Len(ptasks))
        /\ sfiles' = IF clean THEN keep ELSE written
        /\ sdir' = ~(clean /\ keep = {})
        /\ lastClean' = IF clean THEN clock ELSE lastClean
        /\ shist' = [ran |-> TRUE, n |-> (IF shist = NoRun THEN 0 ELSE shist.n) + 1,
                     cleaned |-> clean, listed |-> written, at |-> clock]
        /\ UNCHANGED <<summaries, clock, loaded, received>>

\* The loader goroutine: the files found are merged into memory.
SumLoad ==
    /\ ~loaded
    /\ loaded' = TRUE
    /\ IF sfiles = {}
          THEN UNCHANGED <<summaries, received>>
          ELSE /\ summaries' = insertSummaries(summaries, SortByID(sfiles))
               /\ received' = received \cup sfiles
    /\ UNCHANGED <<sfiles, sdir, lastClean, clock, ptasks, shist>>

SumTick ==
    /\ clock < MaxClock
    /\ clock' = clock + 1
    /\ UNCHANGED <<summaries, sfiles, sdir, lastClean, ptasks, loaded, received, shist>>

\* The files younger than PersistenceMaxAge at time t, and the n files of
\* the highest IDs.
YoungFiles(fs, t) == {f \in fs : SnowTime(f.id) + PersistenceMaxAge > t}
TopFiles(fs, n) == {f \in fs : Cardinality({g \in fs : g.id > f.id}) < n}
ManyYoung == shist # NoRun /\ Cardinality(YoungFiles(shist.listed, shist.at)) > PersistenceMaxCount

C23_OldFilesDeleted ==
    (shist # NoRun /\ shist.cleaned) =>
        /\ \A f \in sfiles : ~(shist.at - SnowTime(f.id) > PersistenceMaxAge)
        /\ (\A f \in shist.listed : shist.at - SnowTime(f.id) > PersistenceMaxAge) =>
              (sfiles = {} /\ ~sdir)

C23_Witness ==
    /\ shist # NoRun
    /\ shist.cleaned
    /\ shist.listed # {}
    /\ \A f \in shist.listed : shist.at - SnowTime(f.id) > PersistenceMaxAge
    /\ sfiles = {}
    /\ ~sdir

\* ---------------------------------------------------------------------
\* writeToFile (unnamed/part_012)
\* ---------------------------------------------------------------------

WInit ==
    /\ wos = "linux"
    /\ wpc = "idle"
    /\ wdata = 1
    /\ wtarget = 0
    /\ wcur = <<>>
    /\ wtmps = <<>>
    /\ wres = "none"
    /\ nWrites = 0
    /\ wcrashes = 0

\* The platform is either one; the file at path is absent or complete.
WInputs ==
    /\ wos \in {"linux", "windows"}
    /\ wpc = "idle"
    /\ wdata = 1
    /\ wtarget \in 0..1
    /\ wcur = <<>>
    /\ wtmps = <<>>
    /\ wres = "none"
    /\ nWrites = 0
    /\ wcrashes = 0

\* The call begins: os.WriteFile truncates the file at path on Windows;
\* elsewhere os.CreateTemp makes an empty temp file or fails.
WStart(d, fail) ==
    /\ wpc = "idle"
    /\ nWrites < MaxWrites
    /\ nWrites' = nWrites + 1
    /\ wdata' = d
    /\ IF wos = "windows"
       THEN /\ ~fail
            /\ wpc' = "direct"
            /\ wtarget' = -d
            /\ wres' = "none"
            /\ UNCHANGED wcur
       ELSE IF fail
       THEN /\ wres' = "err"
            /\ UNCHANGED <<wpc, wtarget, wcur>>
       ELSE /\ wpc' = "created"
            /\ wcur' = <<0>>
            /\ wres' = "none"
            /\ UNCHANGED wtarget
    /\ UNCHANGED <<wos, wtmps, wcrashes>>

\* Part of the data reaching the file at path instead of the temp file.
WPartialInPlace ==
    /\ wpc = "created"
    /\ wcur = <<0>>
    /\ wtarget' = -wdata
    /\ UNCHANGED <<wos, wpc, wdata, wcur, wtmps, wres, nWrites, wcrashes>>

\* tmp.Write under way: part of the data is in the temp file.
WPartial ==
    /\ wpc = "created"
    /\ wcur = <<0>>
    /\ wcur' = <<-wdata>>
    /\ UNCHANGED <<wos, wpc, wdata, wtarget, wtmps, wres, nWrites, wcrashes>>

\* tmp.Write returns: all the data is in the temp file, or the write
\* failed and the temp file is removed.
WWrite(fail) ==
    /\ wpc = "created"
    /\ IF fail
       THEN /\ wcur' = <<>>
            /\ wpc' = "idle"
            /\ wres' = "err"
       ELSE /\ wcur' = <<wdata>>
            /\ wpc' = "written"
            /\ UNCHANGED wres
    /\ UNCHANGED <<wos, wdata, wtarget, wtmps, nWrites, wcrashes>>

\* os.Rename puts the temp file at path, or fails and the temp file is
\* removed.
WRename(fail) ==
    /\ wpc = "written"
    /\ wpc' = "idle"
    /\ wcur' = <<>>
    /\ IF fail
       THEN wres' = "err" /\ UNCHANGED wtarget
       ELSE wres' = "ok" /\ wtarget' = wcur[1]
    /\ UNCHANGED <<wos, wdata, wtmps, nWrites, wcrashes>>

\* os.WriteFile returns on Windows.
WDirect(fail) ==
    /\ wpc = "direct"
    /\ wpc' = "idle"
    /\ IF fail
       THEN wres' = "err" /\ UNCHANGED wtarget
       ELSE wres' = "ok" /\ wtarget' = wdata
    /\ UNCHANGED <<wos, wdata, wcur, wtmps, nWrites, wcrashes>>

\* The process dies between two steps of the call and is started again:
\* the files stay as they are.
WCrash ==
    /\ wpc # "idle"
    /\ wpc' = "idle"
    /\ wres' = "crash"
    /\ wcur' = <<>>
    /\ wtmps' = wtmps \o wcur
    /\ wcrashes' = wcrashes + Len(wcur)
    /\ UNCHANGED <<wos, wdata, wtarget, nWrites>>

\* C36: off Windows the file at path is never a partial write; it changes
\* only when a temp file that holds all of the call's data is renamed over
\* it; and a call that returned an error left no temp file, so the only
\* temp files without a call are those a crash left.
C36_WriteIsAtomic ==
    /\ [](wos # "windows" =>
            /\ wtarget >= 0
            /\ (wpc = "idle" => wcur = <<>>)
            /\ Len(wtmps) = wcrashes)
    /\ [][(wos # "windows" /\ wtarget' # wtarget) =>
            /\ wcur = <<wdata>>
            /\ wtarget' = wdata
            /\ wcur' = <<>>
            /\ wres' = "ok"]_vars

\* A complete file was replaced by a later complete one after a crash in
\* the middle of a write had left a partial temp file behind.
C36_Witness ==
    /\ wos = "linux"
    /\ wtarget = 2
    /\ wtmps = <<-2>>
    /\ wres = "ok"
    /\ wpc = "idle"

\* ---------------------------------------------------------------------
\* Queries over the cabinet (ningen.go)
\* ---------------------------------------------------------------------

NoQuery == [kind |-> "none"]

QInit ==
    /\ qin = NoQuery
    /\ qout = NoQuery

\* read.State.ReadState: nil unless an entry with a valid LastMessageID is
\* stored.
ReadState(q) == q.stored /\ q.last # 0

\* What ChannelIsUnread is asked about: the channel's read state entry, what
\* MutedState.Channel and Category answer, LastMessage and the view
\* permission.
UnreadInputs ==
    [kind : {"unread"}, stored : BOOLEAN, last : 0..MaxMsg, mentions : MentionCounts,
     chMuted : BOOLEAN, catMuted : BOOLEAN, lastMsg : 0..MaxMsg, view : BOOLEAN]

\* ChannelIsUnread asking the mute state before the mention count.
ChannelIsUnreadMuteFirst(q) ==
    IF ~ReadState(q) THEN "read"
    ELSE IF q.chMuted \/ q.catMuted THEN "read"
    ELSE IF q.mentions > 0 THEN "mentioned"
    ELSE IF q.lastMsg = 0 THEN "read"
    ELSE IF ~q.view THEN "read"
    ELSE IF q.last < q.lastMsg THEN "unread"
    ELSE "read"

\* State.ChannelIsUnread
ChannelIsUnread(q) ==
    IF ~ReadState(q) \/ q.last = 0 THEN "read"
    ELSE IF q.mentions > 0 THEN "mentioned"
    ELSE IF q.chMuted \/ q.catMuted THEN "read"
    ELSE IF q.lastMsg = 0 THEN "read"
    ELSE IF ~q.view THEN "read"
    ELSE IF q.last < q.lastMsg THEN "unread"
    ELSE "read"

QUnread ==
    /\ qin.kind = "unread"
    /\ qout = NoQuery
    /\ qout' = [kind |-> "unread", ind |-> ChannelIsUnread(qin)]
    /\ UNCHANGED qin

\* The guild's channels as the cabinet returns them: the channel at position
\* i has ID i; view is what HasPermissions answers for it. A category has no
\* parent.
ChanTypes == {"text", "category"}
GuildChans ==
    {c \in [type : ChanTypes, parent : 0..MaxChans, view : BOOLEAN] :
        c.type = "category" => c.parent = 0}
ChannelsInputs ==
    UNION {[kind : {"channels"}, allowed : SUBSET ChanTypes,
            chs : {[i \in 1..n |-> [id |-> i, type |-> l[i].type, parent |-> l[i].parent,
                                    view |-> l[i].view]] : l \in [1..n -> GuildChans]}]
           : n \in 0..MaxChans}

\* State.Channels keeping the categories without a channel.
StateChannelsAllCategories(chs, allowed) ==
    SelectSeq(chs, LAMBDA ch : ch.type \in allowed /\ (ch.type = "category" \/ ch.view))

\* State.Channels
StateChannels(chs, allowed) ==
    LET visible == SelectSeq(chs, LAMBDA ch :
                        ch.type \in allowed /\ (ch.type = "category" \/ ch.view))
        categories == {visible[i].id : i \in {j \in 1..Len(visible) : visible[j].type = "category"}}
        count(id) == Cardinality({i \in 1..Len(visible) : visible[i].parent = id})
    IN  SelectSeq(visible, LAMBDA ch : ~(ch.id \in categories /\ count(ch.id) = 0))

QChannels ==
    /\ qin.kind = "channels"
    /\ qout = NoQuery
    /\ qout' = [kind |-> "channels", list |-> StateChannels(qin.chs, qin.allowed)]
    /\ UNCHANGED qin

\* The private channels as the cabinet returns them.
PrivChans == [type : {"dm", "group"}, recipients : 0..1, lastMsg : 0..MaxMsg]
PrivateInputs ==
    UNION {[kind : {"private"},
            chs : {[i \in 1..n |-> [id |-> i, type |-> l[i].type, recipients |-> l[i].recipients,
                                    lastMsg |-> l[i].lastMsg]] : l \in [1..n -> PrivChans]}]
           : n \in 0..MaxChans}

\* sort.SliceStable by LastMessageID, highest first.
RECURSIVE SortByLastMessage(_)
SortByLastMessage(l) ==
    IF l = <<>> THEN <<>>
    ELSE LET top == CHOOSE i \in 1..Len(l) :
                        /\ \A j \in 1..Len(l) : l[j].lastMsg <= l[i].lastMsg
                        /\ \A j \in 1..(i - 1) : l[j].lastMsg < l[i].lastMsg
         IN  <<l[top]>> \o SortByLastMessage(SubSeq(l, 1, top - 1) \o SubSeq(l, top + 1, Len(l)))

Kept(ch) == ~(ch.type = "group" /\ ch.recipients = 0)

\* State.PrivateChannels: the loop ranges over filtered, which is c[:0].
PrivateChannels(c) ==
    LET empty == SubSeq(c, 1, 0)
        filtered == SelectSeq(empty, Kept)
    IN  SortByLastMessage(filtered)

QPrivate ==
    /\ qin.kind = "private"
    /\ qout = NoQuery
    /\ qout' = [kind |-> "private", list |-> PrivateChannels(qin.chs)]
    /\ UNCHANGED qin

\* The decision list of the unread indication, first match wins.
UnreadRows(q) ==
    << <<~q.stored \/ q.last = 0, "read">>,
       <<q.mentions > 0, "mentioned">>,
       <<q.chMuted \/ q.catMuted, "read">>,
       <<q.lastMsg = 0, "read">>,
       <<~q.view, "read">>,
       <<q.last < q.lastMsg, "unread">>,
       <<TRUE, "read">> >>

\* C24: ChannelIsUnread gives the answer of the first matching row of the
\* decision list, for every combination of inputs.
C24_UnreadDecisionList ==
    qout.kind = "unread" =>
        LET rows == UnreadRows(qin)
            first == CHOOSE i \in 1..Len(rows) :
                        rows[i][1] /\ \A j \in 1..(i - 1) : ~rows[j][1]
        IN  qout.ind = rows[first][2]

C24_Witness ==
    /\ qout.kind = "unread"
    /\ qout.ind = "mentioned"
    /\ qin.chMuted
    /\ qin.catMuted

\* C25: Channels returns, in the cache's order, the channels of an allowed
\* type that are categories or can be viewed, without the categories that
\* have no returned channel below them.
C25_ChannelsFiltered ==
    qout.kind = "channels" =>
        LET out == qout.list
            chs == qin.chs
            passes(ch) == ch.type \in qin.allowed /\ (ch.type # "category" => ch.view)
        IN  /\ \A j \in 1..Len(out) :
                  /\ out[j] = chs[out[j].id]
                  /\ \A k \in (j + 1)..Len(out) : out[j].id < out[k].id
                  /\ passes(out[j])
                  /\ out[j].type = "category" =>
                        \E k \in 1..Len(out) : out[k].parent = out[j].id
            /\ \A i \in 1..Len(chs) :
                  (/\ passes(chs[i])
                   /\ chs[i].type = "category" =>
                         \E k \in 1..Len(chs) : passes(chs[k]) /\ chs[k].parent = chs[i].id)
                  => \E j \in 1..Len(out) : out[j] = chs[i]

C25_Witness ==
    /\ qout.kind = "channels"
    /\ Len(qin.chs) = MaxChans
    /\ Len(qout.list) = 2
    /\ qout.list[1].type = "category"
    /\ \E i \in 1..MaxChans : qin.chs[i].type = "category" /\ qin.chs[i].id # qout.list[1].id

\* C26: PrivateChannels returns every private channel of the cabinet but
\* the group DMs without recipients, by descending LastMessageID, equal
\* ones in the cabinet's order.
C26_PrivateChannelsSorted ==
    qout.kind = "private" =>
        qout.list = SortByLastMessage(SelectSeq(qin.chs, Kept))

\* C21: the in-memory list is strictly ascending by EndID, holds at most
\* maxSummaries entries, and its last entry has the highest EndID received.
C21_SummariesSortedBounded ==
    /\ \A i \in 1..(Len(summaries) - 1) : summaries[i].endID < summaries[i + 1].endID
    /\ Len(summaries) <= maxSummaries
    /\ received # {} =>
          /\ summaries # <<>>
          /\ \A r \in received : r.endID <= summaries[Len(summaries)].endID
          /\ \A i \in 1..Len(summaries) : summaries[i] \in received

C21_Witness ==
    /\ Len(summaries) = maxSummaries
    /\ Cardinality({r.endID : r \in received}) > maxSummaries
    /\ Cardinality(received) > Cardinality({r.endID : r \in received})
    /\ loaded

Init == KInit /\ HInit /\ IdInit0 /\ LInit /\ RInit /\ MInit /\ RdInit /\ MtInit /\ PInit /\ SumInit /\ QInit /\ WInit

Next ==
    \/ Dispatch /\ UNCHANGED <<hvars, idvars, lvars, rvars, svars>>
    \/ CallHandler /\ UNCHANGED <<hvars, idvars, lvars, rvars, svars>>
    \/ RunTask /\ UNCHANGED <<hvars, idvars, lvars, rvars, svars>>
    \/ KernelHandler /\ UNCHANGED <<hvars, idvars, lvars, rvars, svars>>
    \/ OpenCall /\ UNCHANGED <<hvars, idvars, lvars, rvars, svars>>
    \/ StateOpen /\ UNCHANGED <<hvars, idvars, lvars, rvars, svars>>
    \/ CtxCancel /\ UNCHANGED <<hvars, idvars, lvars, rvars, svars>>
    \/ OpenWait /\ UNCHANGED <<hvars, idvars, lvars, rvars, svars>>
    \/ Close /\ UNCHANGED <<hvars, idvars, lvars, rvars, svars>>

Spec == Init /\ [][Next]_vars

NextHandle ==
    \/ HWithContext /\ UNCHANGED <<kvars, idvars, lvars, rvars, svars>>
    \/ HOffline /\ UNCHANGED <<kvars, idvars, lvars, rvars, svars>>
    \/ HOnline /\ UNCHANGED <<kvars, idvars, lvars, rvars, svars>>

SpecHandle == Init /\ [][NextHandle]_vars
InitListID == KInit /\ HInit /\ IdInit /\ LInit /\ RInit /\ MInit /\ RdInit /\ MtInit /\ PInit /\ SumInit /\ QInit /\ WInit

NextListID ==
    \/ IdCompute /\ UNCHANGED <<kvars, hvars, lvars, rvars, svars>>

SpecListID == InitListID /\ [][NextListID]_vars

\* The counts and groups the list events carry where only the ops matter.
NextList ==
    \/ ListUpdateEmpty(0, 0, FALSE) /\ UNCHANGED <<kvars, hvars, idvars, rvars, svars>>
    \/ \E first, last \in BOOLEAN :
          ListUpdateOp(0, 0, FALSE, first, last) /\ UNCHANGED <<kvars, hvars, idvars, rvars, svars>>

SpecList == Init /\ [][NextList]_vars

\* The member counts a list event carries: multiples of 50.
Counts == {50 * n : n \in 0..MaxCount}

NextReq ==
    \/ \E mc \in Counts : \E oc \in {n \in Counts : n <= mc} : \E off \in BOOLEAN :
          ListUpdateEmpty(mc, oc, off) /\ UNCHANGED <<kvars, hvars, idvars, rvars, svars>>
    \/ \E c \in Channels : \E k \in 0..MaxChunk :
          RequestMemberList(c, k) /\ UNCHANGED <<kvars, hvars, idvars, svars>>
    \/ \E n \in 1..MaxReqs : \E fail \in BOOLEAN :
          SendTask(n, fail) /\ UNCHANGED <<kvars, hvars, idvars, svars>>

SpecReq == Init /\ [][NextReq]_vars

\* The subscriptions alone: the list is empty or full, with every member
\* visible.
NextSub ==
    \/ \E mc \in {0, 50 * MaxCount} :
          ListUpdateEmpty(mc, mc, TRUE) /\ UNCHANGED <<kvars, hvars, idvars, rvars, svars>>
    \/ \E c \in Channels : \E k \in 0..MaxChunk :
          RequestMemberList(c, k) /\ UNCHANGED <<kvars, hvars, idvars, svars>>
    \/ \E n \in 1..MaxReqs : \E fail \in BOOLEAN :
          SendTask(n, fail) /\ UNCHANGED <<kvars, hvars, idvars, svars>>

SpecSub == Init /\ [][NextSub]_vars

NextMember ==
    \/ \E u \in Users : RequestMemberCheck(u) /\ UNCHANGED <<kvars, hvars, idvars, lvars, rvars, rdvars, mtvars, pvars, tvars>>
    \/ \E u \in Users : RequestMemberLocked(u) /\ UNCHANGED <<kvars, hvars, idvars, lvars, rvars, rdvars, mtvars, pvars, tvars>>
    \/ \E u \in Users : \E fail \in BOOLEAN :
          RequestMemberSend(u, fail) /\ UNCHANGED <<kvars, hvars, idvars, lvars, rvars, rdvars, mtvars, pvars, tvars>>
    \/ \E members \in (SUBSET Users) \ {{}} :
          onMembers(members) /\ UNCHANGED <<kvars, hvars, idvars, lvars, rvars, rdvars, mtvars, pvars, tvars>>

SpecMember == Init /\ [][NextMember]_vars

\* The other substates and stores, untouched by the read state.
NotRead == <<kvars, hvars, idvars, lvars, rvars, mvars, mtvars, pvars, tvars>>

NextRead ==
    \/ \E chans \in SUBSET RdChannels : \E l \in 0..MaxMsg : \E n \in 0..1 :
          RdReady(chans, [last |-> l, mentions |-> n]) /\ UNCHANGED NotRead
    \/ \E c \in RdChannels : \E m \in MsgIDs : RdMessageAck(c, m) /\ UNCHANGED NotRead
    \/ \E c \in RdChannels : \E m \in MsgIDs : \E a \in {Me, Them} : \E l \in MentionLists :
          RdMessageCreate(c, m, a, l) /\ UNCHANGED NotRead
    \/ \E c \in RdChannels : \E m \in MsgIDs : RdMarkRead(c, m) /\ UNCHANGED NotRead
    \/ \E c \in RdChannels : \E m \in MsgIDs : \E n \in MentionCounts :
          RdMarkUnread(c, m, n) /\ UNCHANGED NotRead
    \/ \E c \in RdChannels : RdChannelSet(c) /\ UNCHANGED NotRead
    \/ \E i \in 1..MaxReadOps : RdRunTask(i) /\ UNCHANGED NotRead

SpecRead == Init /\ [][NextRead]_vars

\* The other substates and stores, untouched by the mute state.
NotMute == <<kvars, hvars, idvars, lvars, rvars, mvars, rdvars, pvars, tvars>>

InitMention == KInit /\ HInit /\ IdInit0 /\ LInit /\ RInit /\ MInit /\ RdInit /\ MtInputs /\ PInit /\ SumInit /\ QInit /\ WInit

NextMention ==
    \/ MtEvaluate /\ UNCHANGED NotMute

SpecMention == InitMention /\ [][NextMention]_vars

\* The mute state under its gateway events, the clock and Guild queries.
NextMute ==
    \/ \E st \in {NoSetting} \cup Settings : MtReady(st) /\ UNCHANGED NotMute
    \/ \E st \in Settings : MtUpdate(st) /\ UNCHANGED NotMute
    \/ MtTick /\ UNCHANGED NotMute
    \/ \E everyone \in BOOLEAN : MtGuild(everyone) /\ UNCHANGED NotMute

SpecMute == Init /\ [][NextMute]_vars

\* The presence store under its three writers.
NotPresence == <<kvars, hvars, idvars, lvars, rvars, mvars, rdvars, mtvars, tvars>>

NextPresence ==
    \/ \E g \in PGuilds, u \in Users, pg \in PGuilds :
          pg \in {0, g} /\ PresenceSet(g, u, pg) /\ UNCHANGED NotPresence
    \/ \E g \in PGuilds, u \in Users : PresenceRemove(g, u) /\ UNCHANGED NotPresence
    \/ PresenceReset /\ UNCHANGED NotPresence

SpecPresence == Init /\ [][NextPresence]_vars

\* The summary state under updates, its persistence handlers, the loader
\* and the clock.
NotSummary == <<kvars, hvars, idvars, lvars, rvars, mvars, rdvars, mtvars, pvars, qvars, wvars>>

NextSummary ==
    \/ \E more \in SummaryBatches : SumEvent(more) /\ UNCHANGED NotSummary
    \/ \E i \in 1..Len(ptasks) : SumPersist(i) /\ UNCHANGED NotSummary
    \/ SumLoad /\ UNCHANGED NotSummary
    \/ SumTick /\ UNCHANGED NotSummary

InitSummary ==
    /\ KInit /\ HInit /\ IdInit0 /\ LInit /\ RInit /\ MInit /\ RdInit /\ MtInit /\ PInit
    /\ SumInputs /\ QInit /\ WInit

SpecSummary == InitSummary /\ [][NextSummary]_vars

\* The queries, each asked once in a state drawn from its inputs.
NotQuery == <<kvars, hvars, idvars, lvars, rvars, mvars, rdvars, mtvars, pvars, sumvars, wvars>>

InitQuery ==
    /\ KInit /\ HInit /\ IdInit0 /\ LInit /\ RInit /\ MInit /\ RdInit /\ MtInit /\ PInit /\ SumInit /\ WInit
    /\ qin \in UnreadInputs \cup ChannelsInputs \cup PrivateInputs
    /\ qout = NoQuery

NextQuery ==
    \/ QUnread /\ UNCHANGED NotQuery
    \/ QChannels /\ UNCHANGED NotQuery
    \/ QPrivate /\ UNCHANGED NotQuery

SpecQuery == InitQuery /\ [][NextQuery]_vars

\* writeToFile step by step, on either platform, with crashes in between.
NotWrite == <<kvars, hvars, idvars, lvars, rvars, mvars, rdvars, mtvars, pvars, sumvars, qvars>>

InitWrite ==
    /\ KInit /\ HInit /\ IdInit0 /\ LInit /\ RInit /\ MInit /\ RdInit /\ MtInit /\ PInit
    /\ SumInit /\ QInit /\ WInputs

NextWrite ==
    \/ \E d \in 1..MaxData : \E fail \in BOOLEAN : WStart(d, fail) /\ UNCHANGED NotWrite
    \/ WPartial /\ UNCHANGED NotWrite
    \/ \E fail \in BOOLEAN : WWrite(fail) /\ UNCHANGED NotWrite
    \/ \E fail \in BOOLEAN : WRename(fail) /\ UNCHANGED NotWrite
    \/ \E fail \in BOOLEAN : WDirect(fail) /\ UNCHANGED NotWrite
    \/ WCrash /\ UNCHANGED NotWrite

SpecWrite == InitWrite /\ [][NextWrite]_vars

====
